---- MODULE Spec2Model ----
(***************************************************************************)
(* A model of READR's retrieval-and-orchestration core:                    *)
(*   - KnowledgeRetriever (components/knowledge_retriever.py): the         *)
(*     memoizing cache in front of the Wikipedia lookups;                  *)
(*   - AgentSystem.generate_response (components/agent_system.py): the     *)
(*     four-stage reader / context / analysis / synthesis pipeline.        *)
(*   - TextRetriever (components/text_retriever.py): resolving a source   *)
(*     query to a text through Wikipedia and Google Books;                 *)
(*   - AdvancedFeatures (components/advanced_features.py): the generators  *)
(*     that parse the model's JSON output;                                 *)
(*   - the session handlers of app.py.                                     *)
(*                                                                         *)
(* Python strings are sequences of one-character strings, so that key      *)
(* construction (f-strings), lower-casing and regular-expression           *)
(* substitution are computed character by character.                       *)
(***************************************************************************)
EXTENDS Naturals, Sequences, FiniteSets, TLC

VARIABLES
    cache,      \* KnowledgeRetriever.cache: cache key -> list of articles
    origin,     \* history: cache key -> the call that stored the entry
    calls,      \* history: the public KnowledgeRetriever calls made so far
    st_errors,  \* number of st.error(...) messages emitted so far
    \* one AgentSystem.generate_response call at a time
    pc,                 \* the statement generate_response is about to execute
    request,            \* the arguments of the current call
    document_context,   \* local of generate_response (line 245)
    external_knowledge, \* local of generate_response (line 248)
    external_info,      \* local of _retrieve_external_knowledge (line 194)
    responses,          \* reader_response, context_response, analysis_response
    synthesis_input,    \* local of generate_response (lines 269-273)
    final_response,     \* local of generate_response (line 276)
    sink,               \* what response_container.markdown was given
    returned,           \* the value returned to the caller
    failure,            \* the call whose exception left generate_response
    invoked,            \* history: how often each external call was made
    phases,             \* history: the pipeline states the call went through
    nrequests,          \* number of generate_response calls started
    \* TextRetriever
    tr,         \* history: the last get_text call, its calls out and result
    ntexts,     \* number of get_text calls made so far
    \* AdvancedFeatures
    af,         \* history: the last generator call and its result
    ngenerated, \* number of generator calls made so far
    \* app.py
    session,    \* st.session_state
    nruns,      \* number of handler runs so far
    run,        \* history: what the last run of app.py did
    \* two callers of one KnowledgeRetriever
    basis,      \* history: the text each stored result was generated from
    callers,    \* the frame of each caller's fetch: its locals and position
    \* TextRetriever._clean_title on its own
    cleaned     \* a title, its search key, and the key of that key

krVars == <<cache, origin, calls, st_errors>>

grVars == <<pc, request, document_context, external_knowledge, external_info,
            responses,
            synthesis_input, final_response, sink, returned, failure,
            invoked, phases, nrequests>>

trVars == <<tr, ntexts>>

afVars == <<af, ngenerated>>

appVars == <<session, nruns, run, basis, callers, cleaned>>

\* the state outside KnowledgeRetriever and generate_response
restVars == <<tr, ntexts, af, ngenerated, session, nruns, run, basis,
             callers, cleaned>>

vars == <<cache, origin, calls, st_errors, pc, request, document_context,
          external_knowledge, external_info, responses, synthesis_input,
          final_response, sink, returned, failure, invoked, phases, nrequests,
          tr, ntexts, af, ngenerated, session, nruns, run, basis,
          callers, cleaned>>

----------------------------------------------------------------------------
(* Strings *)

UpperCase == <<"A","B","C","D","E","F","G","H","I","J","K","L","M",
               "N","O","P","Q","R","S","T","U","V","W","X","Y","Z">>

LowerCase == <<"a","b","c","d","e","f","g","h","i","j","k","l","m",
               "n","o","p","q","r","s","t","u","v","w","x","y","z">>

Digits == {"0","1","2","3","4","5","6","7","8","9"}

IsUpper(ch) == \E i \in 1..Len(UpperCase) : UpperCase[i] = ch

IsLower(ch) == \E i \in 1..Len(LowerCase) : LowerCase[i] = ch

\* regular-expression class \s
IsSpace(ch) == ch \in {" ", "\t", "\n"}

\* regular-expression class \w
IsWordChar(ch) == IsUpper(ch) \/ IsLower(ch) \/ ch \in Digits \/ ch = "_"

\* str.lower() on one character
LowerChar(ch) ==
    IF IsUpper(ch)
    THEN LowerCase[CHOOSE i \in 1..Len(UpperCase) : UpperCase[i] = ch]
    ELSE ch

\* str.lower()
Lower(s) == [i \in 1..Len(s) |-> LowerChar(s[i])]

\* s[n:] for 0 <= n
DropFirst(s, n) == IF n >= Len(s) THEN <<>> ELSE SubSeq(s, n + 1, Len(s))

StartsWith(s, p) == Len(s) >= Len(p) /\ SubSeq(s, 1, Len(p)) = p

\* number of leading characters of s in class \s
RECURSIVE LeadingSpaces(_)
LeadingSpaces(s) ==
    IF s = <<>> \/ ~IsSpace(Head(s)) THEN 0 ELSE 1 + LeadingSpaces(Tail(s))

\* number of trailing characters of s in class \s
RECURSIVE TrailingSpaces(_)
TrailingSpaces(s) ==
    IF s = <<>> \/ ~IsSpace(s[Len(s)]) THEN 0
    ELSE 1 + TrailingSpaces(SubSeq(s, 1, Len(s) - 1))

\* str.strip()
Strip(s) ==
    LET l == LeadingSpaces(s)
    IN  IF l = Len(s) THEN <<>>
        ELSE SubSeq(s, l + 1, Len(s) - TrailingSpaces(s))

\* the alternatives of the group (the|a|an), in the order the pattern tries them
Articles == << <<"t","h","e">>, <<"a">>, <<"a","n">> >>

\* re.sub(r'^(the|a|an)\s+', '', s): the first alternative that is followed
\* by at least one whitespace character is removed with the whole whitespace
\* run after it; the pattern is anchored, so at most one match is replaced
StripArticle(s) ==
    LET matches(i) == /\ StartsWith(s, Articles[i])
                      /\ LeadingSpaces(DropFirst(s, Len(Articles[i]))) > 0
    IN  IF \E i \in 1..Len(Articles) : matches(i)
        THEN LET i == CHOOSE j \in 1..Len(Articles) :
                          /\ matches(j)
                          /\ \A k \in 1..(j - 1) : ~matches(k)
                 rest == DropFirst(s, Len(Articles[i]))
             IN  DropFirst(rest, LeadingSpaces(rest))
        ELSE s

KeepChar(ch) == IsWordChar(ch) \/ IsSpace(ch)

\* re.sub(r'[^\w\s]', '', s)
StripSpecial(s) == SelectSeq(s, KeepChar)

\* TextRetriever._clean_title
CleanTitle(title) == Strip(StripSpecial(StripArticle(Lower(title))))

----------------------------------------------------------------------------
(* Optional arguments: None, or a string *)

None == <<"none">>

Some(s) == <<"some", s>>

\* f"{x}" for an optional string x
Format(x) == IF x = None THEN <<"N","o","n","e">> ELSE x[2]

\* truth value of an optional string (None and "" are false)
Truthy(x) == x # None /\ Len(x[2]) > 0

----------------------------------------------------------------------------
(* KnowledgeRetriever *)

\* default of the max_results parameter of search_wikipedia
DefaultMaxResults == 3

\* the page titles the encyclopedia can rank for a query
PageTitles == {"Emma (novel)", "Emma (1996 film)"}

\* ranked title lists (no title twice) that wikipedia.search may produce
Rankings ==
    {r \in UNION {[1..n -> PageTitles] : n \in 0..Cardinality(PageTitles)} :
        \A i, j \in DOMAIN r : i # j => r[i] # r[j]}

\* What the encyclopedia does during one lookup: wikipedia.search raises or
\* ranks titles; wikipedia.page(title) yields the page ("ok"), raises
\* DisambiguationError or PageError ("skip"), or raises anything else
\* ("raise"). Only the pages of ranked titles are ever requested, so the
\* status of an unranked page is fixed.
Worlds ==
    {w \in [search : [ok : {TRUE}, titles : Rankings]
                       \cup {[ok |-> FALSE, titles |-> <<>>]},
            page   : [PageTitles -> {"ok", "skip", "raise"}]] :
        \A t \in PageTitles :
            (\A i \in DOMAIN w.search.titles : w.search.titles[i] # t)
                => w.page[t] = "ok"}

\* s[:n]
Take(s, n) == IF n >= Len(s) THEN s ELSE SubSeq(s, 1, n)

\* the dictionary appended for one page
Article(t) == [title |-> t, source |-> "wikipedia"]

WikiCall(query, max_results) ==
    [op |-> "wiki", a |-> query, b |-> None, n |-> max_results]

LitCall(title, author) == [op |-> "lit", a |-> title, b |-> author, n |-> 0]

HistCall(period, event) == [op |-> "hist", a |-> period, b |-> event, n |-> 0]

\* cache_key = f"wiki_{query}"
WikiKey(query) == <<"w","i","k","i","_">> \o query

\* cache_key = f"lit_{title}_{author}"
LitKey(title, author) ==
    <<"l","i","t","_">> \o title \o <<"_">> \o Format(author)

\* cache_key = f"hist_{period}_{event}"
HistKey(period, event) ==
    <<"h","i","s","t","_">> \o period \o <<"_">> \o Format(event)

\* the query fetch_literary_analysis hands to search_wikipedia
LitQuery(title, author) ==
    IF Truthy(author)
    THEN title \o <<" ">> \o author[2]
               \o <<" ","l","i","t","e","r","a","r","y"," ",
                    "a","n","a","l","y","s","i","s">>
    ELSE title \o <<" ","l","i","t","e","r","a","r","y"," ",
                    "a","n","a","l","y","s","i","s">>

\* the query fetch_historical_context hands to search_wikipedia
HistQuery(period, event) ==
    LET q == period \o <<" ","h","i","s","t","o","r","i","c","a","l"," ",
                         "c","o","n","t","e","x","t">>
    IN  IF Truthy(event) THEN q \o <<" ">> \o event[2] ELSE q

\* a retriever that never consults its cache
CacheHit_Never(c, key) == FALSE

\* the test `cache_key in self.cache`
CacheHit(c, key) == key \in DOMAIN c

\* a store that evicts every other entry
Store_Evicting(c, key, value) == [k \in {key} |-> value]

\* self.cache[key] = value
Store(c, key, value) ==
    [k \in DOMAIN c \cup {key} |-> IF k = key THEN value ELSE c[k]]

\* the articles list built by the loop over search_results: pages that raise
\* DisambiguationError or PageError are skipped
Collect(titles, w) ==
    LET ok(t) == w.page[t] = "ok"
        kept  == SelectSeq(titles, ok)
    IN  [i \in 1..Len(kept) |-> Article(kept[i])]

\* The outcome of one call: the cache and the entry origins after it, the
\* value returned, the number of wikipedia.search calls made, the number of
\* st.error messages emitted, whether the external lookup failed, and whether
\* (and from which call's entry) the value was served from the cache.
Outcome(c, o, result, lookups, errors, failed, hit, from) ==
    [cache |-> c, origin |-> o, result |-> result, lookups |-> lookups,
     errors |-> errors, failed |-> failed, hit |-> hit, from |-> from]

\* KnowledgeRetriever.search_wikipedia
SearchWikipedia(c, o, query, max_results, w) ==
    LET key    == WikiKey(query)
        me     == WikiCall(query, max_results)
        titles == Take(w.search.titles, max_results)
    IN  IF CacheHit(c, key)
        THEN Outcome(c, o, c[key], 0, 0, FALSE, TRUE, o[key])
        ELSE IF \/ ~w.search.ok
                \/ \E i \in 1..Len(titles) : w.page[titles[i]] = "raise"
        THEN Outcome(c, o, <<>>, 1, 1, TRUE, FALSE, me)
        ELSE Outcome(Store(c, key, Collect(titles, w)), Store(o, key, me),
                     Collect(titles, w), 1, 0, FALSE, FALSE, me)

\* KnowledgeRetriever.fetch_literary_analysis
FetchLiteraryAnalysis(c, o, title, author, w) ==
    LET key == LitKey(title, author)
        me  == LitCall(title, author)
        r   == SearchWikipedia(c, o, LitQuery(title, author),
                               DefaultMaxResults, w)
    IN  IF CacheHit(c, key)
        THEN Outcome(c, o, c[key], 0, 0, FALSE, TRUE, o[key])
        ELSE Outcome(Store(r.cache, key, r.result), Store(r.origin, key, me),
                     r.result, r.lookups, r.errors, r.failed, FALSE, me)

\* KnowledgeRetriever.fetch_historical_context
FetchHistoricalContext(c, o, period, event, w) ==
    LET key == HistKey(period, event)
        me  == HistCall(period, event)
        r   == SearchWikipedia(c, o, HistQuery(period, event),
                               DefaultMaxResults, w)
    IN  IF CacheHit(c, key)
        THEN Outcome(c, o, c[key], 0, 0, FALSE, TRUE, o[key])
        ELSE Outcome(Store(r.cache, key, r.result), Store(r.origin, key, me),
                     r.result, r.lookups, r.errors, r.failed, FALSE, me)

----------------------------------------------------------------------------
(* AgentSystem: retrieval for one question *)

\* top_k of _retrieve_relevant_context
TopK == 5

\* k of the similarity search on the external knowledge base
ExternalK == 3

\* str.split(): the maximal runs of non-whitespace characters, in order
RECURSIVE Split(_)
Split(s) ==
    IF s = <<>> THEN <<>>
    ELSE IF IsSpace(Head(s)) THEN Split(Tail(s))
    ELSE LET n == CHOOSE k \in 1..Len(s) :
                      /\ \A i \in 1..k : ~IsSpace(s[i])
                      /\ k = Len(s) \/ IsSpace(s[k + 1])
         IN  <<SubSeq(s, 1, n)>> \o Split(DropFirst(s, n))

\* every capitalised word taken for an entity
IsEntity_AnyCapitalised(word) == IsUpper(word[1])

\* len(word) > 3 and word[0].isupper()
IsEntity(word) == Len(word) > 3 /\ IsUpper(word[1])

\* potential_entities
PotentialEntities(question) == SelectSeq(Split(question), IsEntity)

\* the analysis types that fetch literary analysis per entity
LiteraryTypes == {"Character Analysis", "Symbolism", "Themes"}

\* the choices of the analysis_type select box
AnalysisTypes ==
    {"General", "Historical Context", "Character Analysis", "Symbolism",
     "Themes", "Literary Techniques"}

\* The loop over potential_entities: one fetch per entity, in order, each
\* against the encyclopedia behaviour ws[i]; external_info is extended by
\* every non-empty result. r carries the cache, the entry origins, the
\* external_info list, the calls made and the st.error count.
RECURSIVE FetchEach(_, _, _, _, _)
FetchEach(kind, entities, ws, i, r) ==
    IF i > Len(entities) THEN r
    ELSE LET f  == IF kind = "hist"
                   THEN FetchHistoricalContext(r.cache, r.origin,
                                               entities[i], None, ws[i])
                   ELSE FetchLiteraryAnalysis(r.cache, r.origin,
                                              entities[i], None, ws[i])
             id == IF kind = "hist" THEN HistCall(entities[i], None)
                   ELSE LitCall(entities[i], None)
         IN  FetchEach(kind, entities, ws, i + 1,
                       [cache  |-> f.cache,
                        origin |-> f.origin,
                        info   |-> r.info \o f.result,
                        calls  |-> Append(r.calls,
                                          [id |-> id, result |-> f.result,
                                           lookups |-> f.lookups,
                                           failed |-> f.failed,
                                           hit |-> f.hit, from |-> f.from]),
                        errors |-> r.errors + f.errors])

\* The fetches of _retrieve_external_knowledge (lines 191-215) for one
\* question and analysis type; ws gives the encyclopedia's behaviour for each
\* fetch in turn.
FetchExternal(c, o, question, analysis_type, ws) ==
    LET start == [cache |-> c, origin |-> o, info |-> <<>>, calls |-> <<>>,
                  errors |-> 0]
        w     == SearchWikipedia(c, o, question, DefaultMaxResults, ws[1])
    IN  IF analysis_type = "Historical Context"
        THEN FetchEach("hist", PotentialEntities(question), ws, 1, start)
        ELSE IF analysis_type \in LiteraryTypes
        THEN FetchEach("lit", PotentialEntities(question), ws, 1, start)
        ELSE [cache  |-> w.cache,
              origin |-> w.origin,
              info   |-> w.result,
              calls  |-> <<[id |-> WikiCall(question, DefaultMaxResults),
                            result |-> w.result, lookups |-> w.lookups,
                            failed |-> w.failed, hit |-> w.hit,
                            from |-> w.from]>>,
              errors |-> w.errors]

\* number of encyclopedia behaviours FetchExternal consults
NumFetches(question, analysis_type) ==
    IF analysis_type = "Historical Context" \/ analysis_type \in LiteraryTypes
    THEN Len(PotentialEntities(question))
    ELSE 1

\* an index built from the first record only
ExternalChunks_FirstRecordOnly(information_list, k) ==
    Take([i \in 1..Len(information_list) |-> information_list[i].title], 1)

\* "\n\n".join(doc.page_content for doc in docs) for the external knowledge
\* base built from information_list: one chunk per record, named by the
\* record's title, the first k of them returned
ExternalChunks(information_list, k) ==
    Take([i \in 1..Len(information_list) |-> information_list[i].title], k)

----------------------------------------------------------------------------
(* AgentSystem.generate_response: data *)

\* the specialist agents, in the order generate_response invokes them
Specialists == <<"reader", "context", "analysis">>

\* the external calls of one generate_response call
ExternalCalls ==
    {"document", "external", "reader", "context", "analysis", "synthesis"}

\* a string-valued local that has not been assigned
Unset == "(unset)"

\* no response received yet
NoResponse == [kind |-> "none", output |-> ""]

\* What agent.invoke can do: return a mapping with an "output" entry, return
\* a mapping without one, or raise.
AgentOutcomes(stage) ==
    {[kind |-> "ok", output |-> stage \o " agent text"],
     [kind |-> "nokey", output |-> ""],
     [kind |-> "raise", output |-> ""]}

\* What synthesis_agent.invoke can do: return the answer text, or raise.
SynthesisOutcomes ==
    {[kind |-> "ok", output |-> "synthesis text"],
     [kind |-> "raise", output |-> ""]}

\* response.get("output", "")
GetOutput(response) == IF response.kind = "ok" THEN response.output ELSE ""

\* a synthesis input that lists the context output before the reader output
SynthesisInput_ContextFirst(question, reader_output, context_output, analysis_output) ==
    << [label |-> "Question: ", text |-> question],
       [label |-> "Context Agent (Historical/Biographical Context): ",
        text  |-> context_output],
       [label |-> "Reader Agent (Text Information): ",
        text  |-> reader_output],
       [label |-> "Analysis Agent (Literary Analysis): ",
        text  |-> analysis_output],
       [label |-> "Please synthesize these insights into a comprehensive, cohesive response that addresses the question.",
        text  |-> ""] >>

\* synthesis_input (lines 269-273), as the list of its labelled parts
SynthesisInput(question, reader_output, context_output, analysis_output) ==
    << [label |-> "Question: ", text |-> question],
       [label |-> "Reader Agent (Text Information): ",
        text  |-> reader_output],
       [label |-> "Context Agent (Historical/Biographical Context): ",
        text  |-> context_output],
       [label |-> "Analysis Agent (Literary Analysis): ",
        text  |-> analysis_output],
       [label |-> "Please synthesize these insights into a comprehensive, cohesive response that addresses the question.",
        text  |-> ""] >>

\* a pipeline that synthesizes without waiting for the analysis agent
AfterSpecialist_SkipAnalysis(stage) ==
    CASE stage = "reader"   -> "context"
      [] stage = "context"  -> "synthesis"
      [] stage = "analysis" -> "synthesis"

\* a pipeline that goes back to retrieval after the specialists
AfterSpecialist_Again(stage) ==
    CASE stage = "reader"   -> "context"
      [] stage = "context"  -> "analysis"
      [] stage = "analysis" -> "document"

\* the statement that follows the invocation of a specialist
AfterSpecialist(stage) ==
    CASE stage = "reader"   -> "context"
      [] stage = "context"  -> "analysis"
      [] stage = "analysis" -> "synthesis"

\* the pipeline state of section 4.4 a statement belongs to
Phase(at) ==
    CASE at \in {"document", "external"}          -> "RETRIEVE_CONTEXT"
      [] at \in {"reader", "context", "analysis"} -> "RUN_SPECIALISTS"
      [] at = "synthesis"                         -> "SYNTHESIZE"
      [] at \in {"deliver", "done"}               -> "DONE"
      [] at = "raised"                            -> "FAILED"
      [] OTHER                                    -> "IDLE"

IsEmmaVain == <<"I","s"," ","E","m","m","a"," ","v","a","i","n","?">>

WhySo == <<"w","h","y"," ","s","o","?">>

\* the questions asked
Questions == {IsEmmaVain, WhySo}

\* the document index: absent, or a vector store
KnowledgeBases == {"None", "vectorstore"}

\* What knowledge_base.similarity_search(question, k) can do: return at most
\* k chunks (here: none, or one), or raise.
DocumentOutcomes(k) ==
    {[kind |-> "ok", chunks |-> Take(c, k)] :
         c \in {<<>>, <<"document chunk">>}}
        \cup {[kind |-> "raise", chunks |-> <<>>]}

\* What building and querying the external knowledge base can do (the
\* embedding calls of Chroma.from_texts and similarity_search): succeed, or
\* raise.
IndexOutcomes == {"ok", "raise"}

\* the chat history handed to generate_response
Histories ==
    {<< [role |-> "assistant", content |-> "welcome"],
        [role |-> "user", content |-> "question"] >>}

NoRequest ==
    [question |-> <<>>, analysis_type |-> "", knowledge_base |-> "None",
     chat_history |-> <<>>]

\* no generate_response call has been made
IdleGR ==
    /\ pc = "idle"
    /\ request = NoRequest
    /\ document_context = <<>>
    /\ external_knowledge = <<>>
    /\ external_info = <<>>
    /\ responses = [s \in {"reader", "context", "analysis"} |-> NoResponse]
    /\ synthesis_input = <<>>
    /\ final_response = Unset
    /\ sink = Unset
    /\ returned = Unset
    /\ failure = "none"
    /\ invoked = [x \in ExternalCalls |-> 0]
    /\ phases = <<>>
    /\ nrequests = 0

\* no get_text call has been made
NoText ==
    [query |-> <<>>, key |-> <<"none">>,
     result |-> [kind |-> "none", text |-> "", metadata |-> [sources |-> <<>>],
                 log |-> <<>>, errors |-> 0]]

\* no generator call has been made
NoGenerated == [op |-> "none"]

\* st.session_state after the first run of app.py (lines 25-65)
NewSession ==
    [messages |->
         <<[role |-> "assistant",
            content |->
                [text |-> "Welcome to READR! Please enter a book or literary source to begin exploring.",
                 arg |-> <<>>]]>>,
     last_query |-> <<>>,
     analysis_type |-> "General",
     current_tab |-> "Chat",
     study_guide |-> [type |-> "none"],
     visualization_data |-> [type |-> "none"],
     reading_position |-> 0,
     combined_text |-> "",
     source_metadata |-> [sources |-> <<>>],
     knowledge_base |-> "None"]

\* the callers that share one KnowledgeRetriever
Callers == {1, 2}

\* The frame of a fetch that has not started: the call, the statement the
\* caller is at, the locals cache_key of the fetch operation and of
\* search_wikipedia, articles and analyses, the value returned, whether the
\* lookup raised, and (history) the values the caller computed for a key.
NoFrame ==
    [call |-> [op |-> "none"], pc |-> "idle", key |-> <<>>, wkey |-> <<>>,
     articles |-> <<>>, analyses |-> <<>>, returned |-> <<>>,
     failed |-> FALSE, made |-> {}]

\* no handler of app.py has run: which handler ran, whether it dispatched
\* its call, whether an exception ended the run, the sidebar message, the
\* text and metadata get_text returned, the value generate_response returned
NoRun ==
    [op |-> "none", dispatched |-> FALSE, raised |-> FALSE, notice |-> "",
     content |-> "", metadata |-> [sources |-> <<>>], response |-> ""]

\* nothing has happened outside KnowledgeRetriever and generate_response
IdleRest ==
    /\ tr = NoText
    /\ ntexts = 0
    /\ af = NoGenerated
    /\ ngenerated = 0
    /\ session = NewSession
    /\ nruns = 0
    /\ run = NoRun
    /\ basis = [study_guide |-> "", visualization_data |-> ""]
    /\ callers = [i \in Callers |-> NoFrame]

----------------------------------------------------------------------------
(* A session of calls on one KnowledgeRetriever *)

\* number of public KnowledgeRetriever calls in a session
MaxCalls == 3

Emma == <<"E","m","m","a">>

TheEmmaBang == <<"t","h","e"," ","e","m","m","a","!">>

NoneWord == <<"N","o","n","e">>

\* the query arguments of search_wikipedia
KRQueries == {Emma, TheEmmaBang}

\* the max_results arguments of search_wikipedia
KRMaxResults == {1, DefaultMaxResults}

\* the title / period arguments of the fetch operations
KRTitles == {Emma}

\* the author / event arguments of the fetch operations
KROptions == {None, Some(NoneWord)}

\* one entry of the call history
Logged(id, r) ==
    [id |-> id, result |-> r.result, lookups |-> r.lookups,
     failed |-> r.failed, hit |-> r.hit, from |-> r.from]

\* the effect of a call with outcome r on the session
Apply(id, r) ==
    /\ cache' = r.cache
    /\ origin' = r.origin
    /\ calls' = Append(calls, Logged(id, r))
    /\ st_errors' = st_errors + r.errors
    /\ UNCHANGED grVars
    /\ UNCHANGED restVars

\* _clean_title has not been applied to title
Uncleaned(title) == [title |-> title, key |-> <<>>, again |-> <<>>, n |-> 0]

\* new components, and no call made
Idle ==
    /\ cache = [k \in {} |-> <<>>]
    /\ origin = [k \in {} |-> <<>>]
    /\ calls = <<>>
    /\ st_errors = 0
    /\ IdleGR
    /\ IdleRest

\* a new KnowledgeRetriever, and no generate_response call
InitKR ==
    /\ Idle
    /\ cleaned = Uncleaned(<<>>)

CallSearchWikipedia ==
    /\ Len(calls) < MaxCalls
    /\ \E query \in KRQueries, max_results \in KRMaxResults :
       \E r \in {SearchWikipedia(cache, origin, query, max_results, w) :
                    w \in Worlds} :
           Apply(WikiCall(query, max_results), r)

CallFetchLiteraryAnalysis ==
    /\ Len(calls) < MaxCalls
    /\ \E title \in KRTitles, author \in KROptions :
       \E r \in {FetchLiteraryAnalysis(cache, origin, title, author, w) :
                    w \in Worlds} :
           Apply(LitCall(title, author), r)

CallFetchHistoricalContext ==
    /\ Len(calls) < MaxCalls
    /\ \E period \in KRTitles, event \in KROptions :
       \E r \in {FetchHistoricalContext(cache, origin, period, event, w) :
                    w \in Worlds} :
           Apply(HistCall(period, event), r)

NextKR ==
    \/ CallSearchWikipedia
    \/ CallFetchLiteraryAnalysis
    \/ CallFetchHistoricalContext

SpecKR == InitKR /\ [][NextKR]_vars

----------------------------------------------------------------------------
(* Two callers interleaving on one KnowledgeRetriever, statement by         *)
(* statement: the dictionary operations of self.cache are atomic, the      *)
(* locals belong to each caller's own frame.                               *)

\* the fetches the callers make
CCCalls ==
    {WikiCall(<<"E","m","m","a">>, 1),
     WikiCall(<<"E","m","m","a">>, DefaultMaxResults),
     WikiCall(LitQuery(<<"E","m","m","a">>, None), DefaultMaxResults),
     LitCall(<<"E","m","m","a">>, None)}

\* What lines 40-58 of search_wikipedia give: the articles list, or an
\* exception.
Looked(titles, w) ==
    IF \/ ~w.search.ok
       \/ \E i \in 1..Len(titles) : w.page[titles[i]] = "raise"
    THEN [ok |-> FALSE, articles |-> <<>>]
    ELSE [ok |-> TRUE, articles |-> Collect(titles, w)]

\* the cache key search_wikipedia uses during a fetch
InnerKey(call) ==
    IF call.op = "wiki" THEN WikiKey(call.a)
    ELSE WikiKey(LitQuery(call.a, call.b))

\* the cache key a fetch is answered under
OwnKey(call) ==
    IF call.op = "wiki" THEN WikiKey(call.a) ELSE LitKey(call.a, call.b)

\* cache keys that leave the query out
Frame_KeyWithoutQuery(call) ==
    [NoFrame EXCEPT
         !.call = call,
         !.pc = IF call.op = "wiki" THEN "check" ELSE "outer_check",
         !.key = IF call.op = "wiki" THEN <<>> ELSE <<"l","i","t","_">>,
         !.wkey = <<"w","i","k","i","_">>]

\* the frame of a caller that has built its cache key (lines 35, 79)
Frame(call) ==
    [NoFrame EXCEPT
         !.call = call,
         !.pc = IF call.op = "wiki" THEN "check" ELSE "outer_check",
         !.key = IF call.op = "wiki" THEN <<>> ELSE LitKey(call.a, call.b),
         !.wkey = IF call.op = "wiki" THEN WikiKey(call.a)
                  ELSE WikiKey(LitQuery(call.a, call.b))]

\* caller i's frame becomes f; the other frames and the rest are untouched
Step(i, f) ==
    /\ callers' = [callers EXCEPT ![i] = f]
    /\ UNCHANGED <<calls, tr, ntexts, af, ngenerated, session, nruns, run,
                   basis, cleaned>>
    /\ UNCHANGED grVars

\* a caller enters search_wikipedia (line 35) or fetch_literary_analysis
\* (lines 79-88)
StartFetch(i) ==
    /\ callers[i].pc = "idle"
    /\ \E call \in CCCalls : Step(i, Frame(call))
    /\ UNCHANGED <<cache, origin, st_errors>>

\* lines 80-81 of fetch_literary_analysis
CheckOuter(i) ==
    LET f == callers[i]
    IN  /\ callers[i].pc = "outer_check"
        /\ IF CacheHit(cache, f.key)
           THEN Step(i, [f EXCEPT !.returned = cache[f.key], !.pc = "done"])
           ELSE Step(i, [f EXCEPT !.pc = "check"])
        /\ UNCHANGED <<cache, origin, st_errors>>

\* lines 36-37 of search_wikipedia; its value is returned to the caller, or
\* to fetch_literary_analysis (line 91)
CheckCache(i) ==
    LET f == callers[i]
    IN  /\ callers[i].pc = "check"
        /\ IF ~CacheHit(cache, f.wkey) THEN Step(i, [f EXCEPT !.pc = "lookup"])
           ELSE IF f.call.op = "wiki"
           THEN Step(i, [f EXCEPT !.returned = cache[f.wkey], !.pc = "done"])
           ELSE Step(i, [f EXCEPT
                             !.analyses = cache[f.wkey],
                             !.made = @ \cup {<<OwnKey(f.call),
                                                 cache[f.wkey]>>},
                             !.pc = "outer_store"])
        /\ UNCHANGED <<cache, origin, st_errors>>

\* lines 40-58 of search_wikipedia, and its handler (lines 63-65)
ExternalLookup(i) ==
    LET f == callers[i]
        n == IF f.call.op = "wiki" THEN f.call.n ELSE DefaultMaxResults
    IN  /\ callers[i].pc = "lookup"
        /\ \E r \in {Looked(Take(w.search.titles, n), w) : w \in Worlds} :
               IF r.ok
               THEN /\ Step(i, [f EXCEPT
                                    !.articles = r.articles,
                                    !.made = @ \cup {<<InnerKey(f.call),
                                                        r.articles>>},
                                    !.pc = "store"])
                    /\ UNCHANGED st_errors
               ELSE /\ st_errors' = st_errors + 1
                    /\ IF f.call.op = "wiki"
                       THEN Step(i, [f EXCEPT !.failed = TRUE,
                                              !.returned = <<>>,
                                              !.pc = "done"])
                       ELSE Step(i, [f EXCEPT
                                         !.failed = TRUE,
                                         !.analyses = <<>>,
                                         !.made = @ \cup {<<OwnKey(f.call),
                                                             <<>> >>},
                                         !.pc = "outer_store"])
        /\ UNCHANGED <<cache, origin>>

\* lines 61-62 of search_wikipedia
StoreArticles(i) ==
    LET f == callers[i]
    IN  /\ callers[i].pc = "store"
        /\ cache' = Store(cache, f.wkey, f.articles)
        /\ origin' = Store(origin, f.wkey, f.call)
        /\ IF f.call.op = "wiki"
           THEN Step(i, [f EXCEPT !.returned = f.articles, !.pc = "done"])
           ELSE Step(i, [f EXCEPT
                             !.analyses = f.articles,
                             !.made = @ \cup {<<OwnKey(f.call),
                                                 f.articles>>},
                             !.pc = "outer_store"])
        /\ UNCHANGED st_errors

\* lines 94-95 of fetch_literary_analysis
StoreAnalyses(i) ==
    LET f == callers[i]
    IN  /\ callers[i].pc = "outer_store"
        /\ cache' = Store(cache, f.key, f.analyses)
        /\ origin' = Store(origin, f.key, f.call)
        /\ Step(i, [f EXCEPT !.returned = f.analyses, !.pc = "done"])
        /\ UNCHANGED st_errors

Enter == \E i \in Callers : StartFetch(i)

OuterChecked == \E i \in Callers : CheckOuter(i)

Checked == \E i \in Callers : CheckCache(i)

LookedUp == \E i \in Callers : ExternalLookup(i)

StoredArticles == \E i \in Callers : StoreArticles(i)

StoredAnalyses == \E i \in Callers : StoreAnalyses(i)

InitCC == InitKR

NextCC ==
    \/ Enter
    \/ OuterChecked
    \/ Checked
    \/ LookedUp
    \/ StoredArticles
    \/ StoredAnalyses

SpecCC == InitCC /\ [][NextCC]_vars

----------------------------------------------------------------------------
(* AgentSystem.generate_response: the call, statement by statement *)

\* number of generate_response calls in a session
MaxRequests == 2

\* control moves to statement `at`
Goto(at) ==
    /\ pc' = at
    /\ phases' = IF Phase(at) # Phase(pc) THEN Append(phases, Phase(at))
                 ELSE phases

\* the external call made at statement `at` is counted
Count(at) == invoked' = [invoked EXCEPT ![at] = @ + 1]

\* An exception raised at statement `at` is caught nowhere in
\* generate_response: it leaves the call, nothing is delivered or returned.
Raise(at) ==
    /\ Goto("raised")
    /\ failure' = at

\* a new KnowledgeRetriever and AgentSystem, no call made yet
InitGR == InitKR

\* app.py calls generate_response (lines 175-182)
StartRequest ==
    /\ pc \in {"idle", "done", "raised"}
    /\ nrequests < MaxRequests
    /\ \E q \in Questions, t \in AnalysisTypes, kb \in KnowledgeBases,
          h \in Histories :
           request' = [question |-> q, analysis_type |-> t,
                       knowledge_base |-> kb, chat_history |-> h]
    /\ pc' = "document"
    /\ phases' = <<Phase("document")>>
    /\ nrequests' = nrequests + 1
    /\ document_context' = <<>>
    /\ external_knowledge' = <<>>
    /\ external_info' = <<>>
    /\ responses' = [s \in {"reader", "context", "analysis"} |-> NoResponse]
    /\ synthesis_input' = <<>>
    /\ final_response' = Unset
    /\ sink' = Unset
    /\ returned' = Unset
    /\ failure' = "none"
    /\ invoked' = [x \in ExternalCalls |-> 0]
    /\ calls' = <<>>
    /\ UNCHANGED <<cache, origin, st_errors>>
    /\ UNCHANGED restVars

\* line 245: _retrieve_relevant_context (lines 167-176)
RetrieveDocumentContext ==
    /\ pc = "document"
    /\ IF request.knowledge_base = "None"
       THEN /\ document_context' = <<>>
            /\ Goto("external")
            /\ UNCHANGED <<invoked, failure>>
       ELSE \E d \in DocumentOutcomes(TopK) :
                /\ Count("document")
                /\ IF d.kind = "raise"
                   THEN Raise("document") /\ UNCHANGED document_context
                   ELSE /\ document_context' = d.chunks
                        /\ Goto("external")
                        /\ UNCHANGED failure
    /\ UNCHANGED <<request, external_knowledge, external_info, responses,
                   synthesis_input,
                   final_response, sink, returned, nrequests>>
    /\ UNCHANGED krVars
    /\ UNCHANGED restVars

\* line 248: _retrieve_external_knowledge (lines 191-228)
RetrieveExternalKnowledge ==
    /\ pc = "external"
    /\ \E f \in {FetchExternal(cache, origin, request.question,
                                request.analysis_type, ws) :
                      ws \in [1..NumFetches(request.question,
                                            request.analysis_type)
                                 -> Worlds]},
          x \in IndexOutcomes :
               /\ cache' = f.cache
               /\ origin' = f.origin
               /\ calls' = calls \o f.calls
               /\ st_errors' = st_errors + f.errors
               /\ external_info' = f.info
               /\ invoked' = [invoked EXCEPT !["external"] = @ + Len(f.calls)]
               /\ IF f.info = <<>>
                  THEN /\ x = "ok"
                       /\ external_knowledge' = <<>>
                       /\ Goto("reader")
                       /\ UNCHANGED failure
                  ELSE IF x = "raise"
                  THEN Raise("external") /\ UNCHANGED external_knowledge
                  ELSE /\ external_knowledge' = ExternalChunks(f.info, ExternalK)
                       /\ Goto("reader")
                       /\ UNCHANGED failure
    /\ UNCHANGED <<request, document_context, responses, synthesis_input,
                   final_response, sink, returned, nrequests>>
    /\ UNCHANGED restVars

\* lines 259-261: agent.invoke({"input": ..., "chat_history": chat_history})
InvokeSpecialist(stage) ==
    /\ pc = stage
    /\ \E a \in AgentOutcomes(stage) :
           /\ Count(stage)
           /\ IF a.kind = "raise"
              THEN Raise(stage) /\ UNCHANGED responses
              ELSE /\ responses' = [responses EXCEPT ![stage] = a]
                   /\ Goto(AfterSpecialist(stage))
                   /\ UNCHANGED failure
    /\ UNCHANGED <<request, document_context, external_knowledge,
                   external_info,
                   synthesis_input, final_response, sink, returned, nrequests>>
    /\ UNCHANGED krVars
    /\ UNCHANGED restVars

InvokeReader == InvokeSpecialist("reader")

InvokeContext == InvokeSpecialist("context")

InvokeAnalysis == InvokeSpecialist("analysis")

\* what a failing synthesis_agent.invoke leaves behind
SynthesisRaises ==
    /\ Raise("synthesis")
    /\ UNCHANGED <<final_response, sink, returned>>

\* lines 264-279: the outputs are read, synthesis_input is built and
\* synthesis_agent.invoke is called
Synthesize ==
    /\ pc = "synthesis"
    /\ synthesis_input' =
           SynthesisInput(request.question,
                          GetOutput(responses["reader"]),
                          GetOutput(responses["context"]),
                          GetOutput(responses["analysis"]))
    /\ Count("synthesis")
    /\ \E a \in SynthesisOutcomes :
           IF a.kind = "raise"
           THEN SynthesisRaises
           ELSE /\ final_response' = a.output
                /\ Goto("deliver")
                /\ UNCHANGED <<failure, sink, returned>>
    /\ UNCHANGED <<request, document_context, external_knowledge,
                   external_info, responses,
                   nrequests>>
    /\ UNCHANGED krVars
    /\ UNCHANGED restVars

\* the answer is also appended to the chat history that was handed in
Deliver_AppendsAnswer ==
    /\ pc = "deliver"
    /\ sink' = final_response
    /\ returned' = final_response
    /\ request' = [request EXCEPT !.chat_history =
                       Append(@, [role |-> "assistant",
                                  content |-> final_response])]
    /\ Goto("done")
    /\ UNCHANGED <<document_context, external_knowledge, external_info,
                   responses, synthesis_input, final_response, failure,
                   invoked, nrequests>>
    /\ UNCHANGED krVars
    /\ UNCHANGED restVars

\* lines 282-284: response_container.markdown(final_response); return
Deliver ==
    /\ pc = "deliver"
    /\ sink' = final_response
    /\ returned' = final_response
    /\ Goto("done")
    /\ UNCHANGED <<request, document_context, external_knowledge,
                   external_info, responses,
                   synthesis_input, final_response, failure, invoked,
                   nrequests>>
    /\ UNCHANGED krVars
    /\ UNCHANGED restVars

NextGR ==
    \/ StartRequest
    \/ RetrieveDocumentContext
    \/ RetrieveExternalKnowledge
    \/ InvokeReader
    \/ InvokeContext
    \/ InvokeAnalysis
    \/ Synthesize
    \/ Deliver

SpecGR == InitGR /\ [][NextGR]_vars

----------------------------------------------------------------------------
(* generate_response with model calls that may never return *)

\* number of generate_response calls in a session with stalling model calls
MaxStallRequests == 1

\* the response of a call that has not returned
Stalled == [kind |-> "stalled", output |-> ""]

\* lines 259-261: agent.invoke is a blocking call and is given no timeout;
\* when the model never answers, generate_response stays inside it
Stall(stage) ==
    /\ pc = stage
    /\ Count(stage)
    /\ responses' = [responses EXCEPT ![stage] = Stalled]
    /\ pc' = "blocked"
    /\ UNCHANGED <<request, document_context, external_knowledge,
                   external_info, synthesis_input, final_response, sink,
                   returned, failure, phases, nrequests>>
    /\ UNCHANGED krVars
    /\ UNCHANGED restVars

StallReader == Stall("reader")

StallContext == Stall("context")

StallAnalysis == Stall("analysis")

StartStallRequest == nrequests < MaxStallRequests /\ StartRequest

NextStall ==
    \/ StartStallRequest
    \/ RetrieveDocumentContext
    \/ RetrieveExternalKnowledge
    \/ InvokeReader
    \/ InvokeContext
    \/ InvokeAnalysis
    \/ Synthesize
    \/ Deliver
    \/ StallReader
    \/ StallContext
    \/ StallAnalysis

\* The interpreter goes on to the next statement of generate_response as
\* long as there is one, and a model call that is due is made: it returns,
\* raises or stalls.  Nothing is assumed about the Wikipedia lookups of the
\* external retrieval, which are blocking network calls as well.
SpecStall ==
    /\ InitGR
    /\ [][NextStall]_vars
    /\ WF_vars(RetrieveDocumentContext)
    /\ WF_vars(InvokeReader \/ StallReader)
    /\ WF_vars(InvokeContext \/ StallContext)
    /\ WF_vars(InvokeAnalysis \/ StallAnalysis)
    /\ WF_vars(Synthesize)
    /\ WF_vars(Deliver)

----------------------------------------------------------------------------
(* AgentSystem._retrieve_external_knowledge called for a question *)

\* number of _retrieve_external_knowledge calls in a session
MaxRetrievals == 1

IsEmmaOrJaneVain ==
    <<"I","s"," ","E","m","m","a"," ","o","r"," ","J","a","n","e"," ",
      "v","a","i","n","?">>

\* the questions external knowledge is retrieved for
EKQuestions == {WhySo, IsEmmaOrJaneVain}

\* _retrieve_external_knowledge(question, knowledge_retriever, analysis_type)
\* is entered (line 178)
EnterRetrieval ==
    /\ pc \in {"idle", "reader", "raised"}
    /\ nrequests < MaxRetrievals
    /\ \E q \in EKQuestions, t \in AnalysisTypes :
           request' = [question |-> q, analysis_type |-> t,
                       knowledge_base |-> "None", chat_history |-> <<>>]
    /\ pc' = "external"
    /\ phases' = <<Phase("external")>>
    /\ nrequests' = nrequests + 1
    /\ external_knowledge' = <<>>
    /\ external_info' = <<>>
    /\ failure' = "none"
    /\ invoked' = [x \in ExternalCalls |-> 0]
    /\ calls' = <<>>
    /\ UNCHANGED <<cache, origin, st_errors>>
    /\ UNCHANGED <<document_context, responses, synthesis_input,
                   final_response, sink, returned>>
    /\ UNCHANGED restVars

InitEK == InitKR

NextEK ==
    \/ EnterRetrieval
    \/ RetrieveExternalKnowledge

SpecEK == InitEK /\ [][NextEK]_vars

----------------------------------------------------------------------------
(* TextRetriever *)

\* the title wikipedia.search ranks first, and the first option of a
\* disambiguation page
EmmaNovel == <<"E","m","m","a"," ","(","n","o","v","e","l",")">>

EmmaFilm == <<"E","m","m","a"," ","(","f","i","l","m",")">>

\* f"{clean_query} novel"
NovelQuery(clean_query) == clean_query \o <<" ","n","o","v","e","l">>

\* What the encyclopedia does during one TextRetriever.search_wikipedia call:
\*   direct  wikipedia.page(clean_query): a page, a page without content,
\*           PageError, DisambiguationError, or another exception;
\*   s1, s2  wikipedia.search of the clean query and of the "novel" query:
\*           a ranked list, an empty list, or an exception;
\*   first   wikipedia.page(search_results[0]);
\*   option  wikipedia.page(e.options[0]), IndexError when e.options is empty.
\* A behaviour is listed once: what a call never asks for is fixed.
WikiWorlds ==
    {w \in [direct : {"ok", "blank", "PageError", "DisambiguationError",
                      "raise"},
            s1     : {"hit", "none", "raise"},
            s2     : {"hit", "none", "raise"},
            first  : {"ok", "PageError", "DisambiguationError", "raise"},
            option : {"ok", "PageError", "IndexError"}] :
        /\ w.direct # "PageError" => (w.s1 = "none" /\ w.s2 = "none")
        /\ w.s1 # "none" => w.s2 = "none"
        /\ (w.s1 # "hit" /\ w.s2 # "hit") => w.first = "ok"
        /\ w.first # "DisambiguationError" => w.option = "ok"}

\* the page object wikipedia.page returns for a title
WikiPage(title, blank) ==
    [title   |-> title,
     url     |-> "https://en.wikipedia.org/wiki/Emma",
     summary |-> IF blank THEN "" ELSE "Emma is a novel.",
     content |-> IF blank THEN ""
                 ELSE IF title = EmmaFilm THEN "Emma is a 2020 film."
                 ELSE "Emma is a novel by Jane Austen."]

\* the metadata of a resolved page (lines 50-55, 74-79, 87-92)
PageMetadata(page) ==
    [source |-> "wikipedia", title |-> page.title, url |-> page.url,
     summary |-> page.summary]

\* one call out of the TextRetriever
Lookup(op, arg) == [op |-> op, arg |-> arg]

\* a return statement, and an exception leaving a block
Return(content, metadata, log) ==
    [kind |-> "return", content |-> content, metadata |-> metadata,
     exc |-> "", log |-> log, errors |-> 0]

Raised(exc, log) ==
    [kind |-> "raise", content |-> "", metadata |-> [source |-> ""],
     exc |-> exc, log |-> log, errors |-> 0]

\* lines 68-95: the first search result is fetched; on a disambiguation page
\* its first option is fetched, and any failure of that is an error result
FirstResult(w, log) ==
    LET log1 == Append(log, Lookup("page", EmmaNovel))
        log2 == Append(log1, Lookup("page", EmmaFilm))
    IN  IF w.first = "ok"
        THEN Return(WikiPage(EmmaNovel, FALSE).content,
                    PageMetadata(WikiPage(EmmaNovel, FALSE)), log1)
        ELSE IF w.first = "DisambiguationError"
        THEN IF w.option = "ok"
             THEN Return(WikiPage(EmmaFilm, FALSE).content,
                         PageMetadata(WikiPage(EmmaFilm, FALSE)), log2)
             ELSE Return("", [source |-> "wikipedia",
                              error |-> "Could not resolve disambiguation"],
                         IF w.option = "IndexError" THEN log1 ELSE log2)
        ELSE Raised(w.first, log1)

\* lines 60-66: the search of the clean query, then of the "novel" query
SearchVariations(clean_query, w, log) ==
    LET log1 == Append(log, Lookup("search", clean_query))
        log2 == Append(log1, Lookup("search", NovelQuery(clean_query)))
    IN  IF w.s1 = "raise" THEN Raised("raise", log1)
        ELSE IF w.s1 = "hit" THEN FirstResult(w, log1)
        ELSE IF w.s2 = "raise" THEN Raised("raise", log2)
        ELSE IF w.s2 = "hit" THEN FirstResult(w, log2)
        ELSE Return("", [source |-> "wikipedia",
                         error |-> "No results found"], log2)

\* lines 43-95: the body of the try block of search_wikipedia
WikipediaBody(query, max_results, w) ==
    LET clean_query == CleanTitle(query)
        log         == <<Lookup("page", clean_query)>>
        page        == WikiPage(clean_query, w.direct = "blank")
    IN  IF w.direct \in {"ok", "blank"}
        THEN Return(page.content, PageMetadata(page), log)
        ELSE IF w.direct = "PageError"
        THEN SearchVariations(clean_query, w, log)
        ELSE Raised(w.direct, log)

\* except PageError only: what a narrower handler would let through
ExceptException_OnlyPageError(r, source) ==
    IF r.kind = "raise" /\ r.exc = "PageError"
    THEN [kind |-> "return", content |-> "",
          metadata |-> [source |-> source, error |-> r.exc], exc |-> "",
          log |-> r.log, errors |-> r.errors + 1]
    ELSE r

\* except Exception as e: st.error(...); return "", {source, error: str(e)}
\* (lines 97-99 and 158-160)
ExceptException(r, source) ==
    IF r.kind = "raise"
    THEN [kind |-> "return", content |-> "",
          metadata |-> [source |-> source, error |-> r.exc], exc |-> "",
          log |-> r.log, errors |-> r.errors + 1]
    ELSE r

\* TextRetriever.search_wikipedia
TRSearchWikipedia(query, max_results, w) ==
    ExceptException(WikipediaBody(query, max_results, w), "wikipedia")

\* the volumeInfo records of the first item Google Books returns; a missing
\* entry reads as its default (lines 135-138)
Volumes ==
    {[title |-> "Emma", authors |-> <<"Jane Austen">>,
      description |-> "A novel of manners."],
     [title |-> "Emma", authors |-> <<>>, description |-> ""],
     [title |-> "", authors |-> <<>>, description |-> ""]}

\* What the Google Books request does: the request or its decoding raises,
\* the answer has no items, the first item has no volumeInfo, or it has one.
BooksWorlds ==
    {[kind |-> k, book |-> CHOOSE v \in Volumes : v.title = ""] :
        k \in {"raise", "noitems", "KeyError"}}
        \cup {[kind |-> "items", book |-> v] : v \in Volumes}

\* ', '.join(authors)
RECURSIVE JoinAuthors(_)
JoinAuthors(authors) ==
    IF authors = <<>> THEN ""
    ELSE IF Len(authors) = 1 THEN authors[1]
    ELSE authors[1] \o ", " \o JoinAuthors(Tail(authors))

\* lines 150-154: the text made of the available book details
BookContent(book) ==
    "Title: " \o book.title \o "\n"
        \o (IF book.authors # <<>>
            THEN "Authors: " \o JoinAuthors(book.authors) \o "\n" ELSE "")
        \o (IF book.description # ""
            THEN "\nDescription:\n" \o book.description \o "\n" ELSE "")

\* lines 140-147
BookMetadata(book) ==
    [source |-> "google_books", title |-> book.title,
     authors |-> book.authors, description |-> book.description,
     preview_url |-> ""]

\* lines 112-156: the body of the try block of search_google_books
BooksBody(query, api_key, g) ==
    LET log == <<Lookup("books", NovelQuery(CleanTitle(query)))>>
    IN  IF g.kind = "raise" THEN Raised("raise", log)
        ELSE IF g.kind = "noitems"
        THEN Return("", [source |-> "google_books",
                         error |-> "No results found"], log)
        ELSE IF g.kind = "KeyError" THEN Raised("KeyError", log)
        ELSE Return(BookContent(g.book), BookMetadata(g.book), log)

\* TextRetriever.search_google_books
TRSearchGoogleBooks(query, api_key, g) ==
    ExceptException(BooksBody(query, api_key, g), "google_books")

\* the separator between the two texts (line 181)
Separator == "\n\n---\n\n"

NoContentFound ==
    [sources |-> <<>>, error |-> "No content found from any source"]

\* the backend that was not called
NotCalled == Return("", [source |-> ""], <<>>)

\* the result of get_text, with what its backends returned
Retrieved(kind, text, metadata, wiki, books) ==
    [kind |-> kind, text |-> text, metadata |-> metadata,
     wiki |-> wiki, books |-> books,
     log |-> wiki.log \o books.log,
     errors |-> wiki.errors + books.errors]

\* the first branch taken whenever Wikipedia has content
Combine_WikipediaWins(wiki, books) ==
    IF wiki.content # ""
    THEN Retrieved("return", wiki.content,
                   [sources |-> <<"wikipedia">>, wikipedia |-> wiki.metadata],
                   wiki, books)
    ELSE IF books.content # ""
    THEN Retrieved("return", books.content,
                   [sources |-> <<"google_books">>,
                    google_books |-> books.metadata], wiki, books)
    ELSE Retrieved("return", "", NoContentFound, wiki, books)

\* lines 180-202: both backends were asked
Combine(wiki, books) ==
    IF wiki.content # "" /\ books.content # ""
    THEN Retrieved("return", wiki.content \o Separator \o books.content,
                   [sources |-> <<"wikipedia", "google_books">>,
                    wikipedia |-> wiki.metadata,
                    google_books |-> books.metadata], wiki, books)
    ELSE IF wiki.content # ""
    THEN Retrieved("return", wiki.content,
                   [sources |-> <<"wikipedia">>, wikipedia |-> wiki.metadata],
                   wiki, books)
    ELSE IF books.content # ""
    THEN Retrieved("return", books.content,
                   [sources |-> <<"google_books">>,
                    google_books |-> books.metadata], wiki, books)
    ELSE Retrieved("return", "", NoContentFound, wiki, books)

\* lines 204-207: only Wikipedia was asked
WikipediaAlone(wiki) ==
    IF wiki.content # ""
    THEN Retrieved("return", wiki.content,
                   [sources |-> <<"wikipedia">>, wikipedia |-> wiki.metadata],
                   wiki, NotCalled)
    ELSE Retrieved("return", "", NoContentFound, wiki, NotCalled)

\* max_results of TextRetriever.search_wikipedia
TRMaxResults == 3

\* get_text that gives up when Wikipedia reports an error
GetText_StopOnWikipediaError(query, google_books_api_key, w, g) ==
    LET wiki == TRSearchWikipedia(query, TRMaxResults, w)
    IN  IF wiki.content = "" /\ "error" \in DOMAIN wiki.metadata
        THEN Retrieved("return", "", NoContentFound, wiki, NotCalled)
        ELSE LET books == TRSearchGoogleBooks(query, google_books_api_key[2], g)
             IN  IF ~Truthy(google_books_api_key) THEN WikipediaAlone(wiki)
                 ELSE Combine(wiki, books)

\* TextRetriever.get_text: an exception of a backend call is caught nowhere
\* in get_text
GetText(query, google_books_api_key, w, g) ==
    LET wiki  == TRSearchWikipedia(query, TRMaxResults, w)
        books == TRSearchGoogleBooks(query, google_books_api_key[2], g)
    IN  IF wiki.kind = "raise"
        THEN Retrieved("raise", "", [sources |-> <<>>], wiki, NotCalled)
        ELSE IF ~Truthy(google_books_api_key) THEN WikipediaAlone(wiki)
        ELSE IF books.kind = "raise"
        THEN Retrieved("raise", "", [sources |-> <<>>], wiki, books)
        ELSE Combine(wiki, books)

----------------------------------------------------------------------------
(* A session of calls on one TextRetriever *)

\* number of get_text calls in a session
MaxTexts == 2

\* the query arguments of get_text
TRQueries == {Emma, TheEmmaBang}

\* the google_books_api_key arguments of get_text
ApiKeys == {None, Some(<<>>), Some(<<"k","e","y">>)}

\* app.py asks get_text for a source (line 107)
CallGetText ==
    /\ ntexts < MaxTexts
    /\ \E query \in TRQueries, key \in ApiKeys :
       \E w \in WikiWorlds,
          g \in IF Truthy(key) THEN BooksWorlds
                ELSE {b \in BooksWorlds : b.kind = "noitems"} :
           tr' = [query |-> query, key |-> key, w |-> w, g |-> g,
                  result |-> GetText(query, key, w, g)]
    /\ ntexts' = ntexts + 1
    /\ UNCHANGED <<krVars, grVars, afVars, appVars>>

----------------------------------------------------------------------------
(* TextRetriever._clean_title applied to a title, and to its own result *)

\* number of parts a title is made of
MaxParts == 3

\* the parts titles are made of
TitleParts ==
    {<<"t","h","e"," ">>, <<"A"," ">>, <<"!">>, <<" ">>,
     <<"E","m","m","a">>, <<"_">>}

RECURSIVE Flatten(_)
Flatten(parts) ==
    IF parts = <<>> THEN <<>> ELSE Head(parts) \o Flatten(Tail(parts))

\* the titles _clean_title is given
Titles ==
    {Flatten(parts) :
         parts \in UNION {[1..n -> TitleParts] : n \in 0..MaxParts}}

\* clean_query = self._clean_title(query) (lines 44, 113)
Clean ==
    /\ cleaned.n = 0
    /\ cleaned' = [cleaned EXCEPT !.key = CleanTitle(cleaned.title), !.n = 1]
    /\ UNCHANGED <<krVars, grVars, trVars, afVars, session, nruns, run,
                   basis, callers>>

\* the key is normalized once more
CleanAgain ==
    /\ cleaned.n = 1
    /\ cleaned' = [cleaned EXCEPT !.again = CleanTitle(cleaned.key), !.n = 2]
    /\ UNCHANGED <<krVars, grVars, trVars, afVars, session, nruns, run,
                   basis, callers>>

InitCT == Idle /\ cleaned \in {Uncleaned(title) : title \in Titles}

NextCT == Clean \/ CleanAgain

SpecCT == InitCT /\ [][NextCT]_vars

InitTR == InitKR

NextTR == CallGetText

SpecTR == InitTR /\ [][NextTR]_vars

----------------------------------------------------------------------------
(* The chat history during generate_response, checked under SpecGR *)

\* C18: generate_response never changes the chat history it is given: from
\* the call to its return or its exception the sequence of turns stays what
\* it was.
C18_HistoryNotMutated ==
    [][(pc # "idle" /\ nrequests' = nrequests)
           => request'.chat_history = request.chat_history]_vars

\* a call has returned its answer and the history is the one handed in
C18_Witness ==
    /\ pc = "done"
    /\ returned = "synthesis text"
    /\ request.chat_history
           = << [role |-> "assistant", content |-> "welcome"],
                [role |-> "user", content |-> "question"] >>

----------------------------------------------------------------------------
(* Properties of _retrieve_external_knowledge, checked under SpecEK *)

Jane == <<"J","a","n","e">>

\* _retrieve_external_knowledge has made its fetches
Fetched == pc \notin {"idle", "document", "external"} /\ failure # "document"

\* the fetches made for the current question, in order
FetchIds == [i \in 1..Len(calls) |-> calls[i].id]

\* the records the fetches returned, in order
RECURSIVE AllResults(_)
AllResults(cs) ==
    IF cs = <<>> THEN <<>> ELSE Head(cs).result \o AllResults(Tail(cs))

\* C16: in historical-context mode one fetch_historical_context call is made
\* per token of the question that is longer than 3 characters and starts
\* with an uppercase letter; in character, symbolism and theme mode one
\* fetch_literary_analysis call per such token; in every other mode exactly
\* one search of the raw question; and no other fetch is made.
C16_ExternalQueryStrategy ==
    Fetched =>
        LET t      == request.analysis_type
            q      == request.question
            tokens == IF q = WhySo THEN <<>>
                      ELSE IF q = IsEmmaVain THEN <<Emma>>
                      ELSE <<Emma, Jane>>
        IN  /\ t = "Historical Context"
                   => FetchIds = [i \in 1..Len(tokens) |->
                                      HistCall(tokens[i], None)]
            /\ t \in {"Character Analysis", "Symbolism", "Themes"}
                   => FetchIds = [i \in 1..Len(tokens) |->
                                      LitCall(tokens[i], None)]
            /\ t \in {"General", "Literary Techniques"}
                   => FetchIds = <<WikiCall(q, DefaultMaxResults)>>
            /\ invoked["external"] = Len(calls)

\* two tokens of a historical-context question were fetched
C16_Witness ==
    /\ pc = "reader"
    /\ request.analysis_type = "Historical Context"
    /\ request.question = IsEmmaOrJaneVain
    /\ FetchIds = <<HistCall(Emma, None), HistCall(Jane, None)>>

\* C17: when no external record is fetched (no token, or every fetch empty
\* or failed) no knowledge base is built, the external context is the empty
\* string and the pipeline goes on without an error; otherwise the external
\* index is built from exactly the records that were fetched, and the
\* external context is made of its first three chunks.
C17_NoRecordsNoError ==
    Fetched =>
        /\ external_info = AllResults(calls)
        /\ external_info = <<>>
               => /\ external_knowledge = <<>>
                  /\ failure # "external"
        /\ (external_info # <<>> /\ failure # "external")
               => external_knowledge
                      = Take([i \in 1..Len(external_info) |->
                                  external_info[i].title], 3)

\* both fetches of a two-token question gave nothing, one of them failing,
\* and the call went on with an empty external context
C17_Witness ==
    /\ pc = "reader"
    /\ Len(calls) = 2
    /\ calls[1].failed /\ calls[2].result = <<>>
    /\ external_info = <<>>
    /\ external_knowledge = <<>>

----------------------------------------------------------------------------
(* Properties of TextRetriever, checked under SpecTR *)

\* a get_text call has been made
Called == tr.result.kind # "none"

\* the backend result carries an error marker
Failed(backend) == "error" \in DOMAIN backend.metadata

\* the arguments of the calls of kind op in a log, in order
RECURSIVE Args(_, _)
Args(log, op) ==
    IF log = <<>> THEN <<>>
    ELSE (IF Head(log).op = op THEN <<Head(log).arg>> ELSE <<>>)
             \o Args(Tail(log), op)

\* s begins with an article that is followed by white space
BeginsWithArticle(s) ==
    \E i \in 1..Len(Articles) :
        /\ StartsWith(s, Articles[i])
        /\ Len(s) > Len(Articles[i])
        /\ IsSpace(s[Len(Articles[i]) + 1])

\* C28: the search key _clean_title gives is lowercase, contains no
\* punctuation (word characters and white space only) and does not begin
\* with an article; normalizing the key again gives the same key.
C28_CleanTitleNormalizes ==
    /\ cleaned.n >= 1 =>
           /\ \A i \in 1..Len(cleaned.key) :
                  /\ ~IsUpper(cleaned.key[i])
                  /\ IsWordChar(cleaned.key[i]) \/ IsSpace(cleaned.key[i])
           /\ ~BeginsWithArticle(cleaned.key)
    /\ cleaned.n = 2 => cleaned.again = cleaned.key

\* the parts of C28 that hold: the key is lowercase and is made of word
\* characters (letters, digits, "_") and white space only
C28_LowercaseWordCharacters ==
    cleaned.n >= 1 =>
        \A i \in 1..Len(cleaned.key) :
            /\ ~IsUpper(cleaned.key[i])
            /\ IsWordChar(cleaned.key[i]) \/ IsSpace(cleaned.key[i])

\* C11: get_text always returns a (text, metadata) pair and never raises,
\* whatever the backends do; when no backend yields content the text is
\* empty and the metadata is {sources: [], error: ...}; the text is non-empty
\* exactly when the metadata has no top-level error marker.
C11_GetTextFailsSoft ==
    Called =>
        /\ tr.result.kind = "return"
        /\ (tr.result.wiki.content = "" /\ tr.result.books.content = "")
               => /\ tr.result.text = ""
                  /\ DOMAIN tr.result.metadata = {"sources", "error"}
                  /\ tr.result.metadata.sources = <<>>
        /\ (tr.result.text # "") <=> ("error" \notin DOMAIN tr.result.metadata)

\* both backends raised inside, and get_text returned the empty state
C11_Witness ==
    /\ Called
    /\ tr.w.direct = "raise"
    /\ Truthy(tr.key) /\ tr.g.kind = "raise"
    /\ tr.result.kind = "return"
    /\ tr.result.errors = 2
    /\ tr.result.text = ""

\* the four search variations of the description, in order
FourVariations(query) ==
    <<CleanTitle(query), NovelQuery(CleanTitle(query)),
      CleanTitle(query) \o <<" ","b","o","o","k">>, query>>

\* C12: search_wikipedia tries the exact title of the cleaned query first;
\* on not-found it searches, in this order, the cleaned query, the cleaned
\* query + "novel", the cleaned query + "book", the original query, a later
\* variation only after the earlier ones; not-found is reported only after
\* all four variations failed.
C12_FourVariationsInOrder ==
    Called =>
        LET log      == tr.result.wiki.log
            searches == Args(log, "search")
            four     == FourVariations(tr.query)
        IN  /\ log[1] = Lookup("page", CleanTitle(tr.query))
            /\ Len(searches) <= 4
            /\ searches = SubSeq(four, 1, Len(searches))
            /\ (Failed(tr.result.wiki)
                  /\ tr.result.wiki.metadata.error = "No results found")
                   => searches = four

\* C13: when a lookup of search_wikipedia hits a disambiguation page, its
\* first option is attempted, and when that fails too the next search
\* variation is tried instead of an error being returned; for the exact-title
\* lookup as for the search candidates.
C13_DisambiguationContinues ==
    Called =>
        LET log == tr.result.wiki.log
        IN  /\ tr.w.direct = "DisambiguationError"
                   => /\ Len(log) > 1
                      /\ log[2].op = "page"
            /\ (tr.w.direct = "PageError" /\ tr.w.s1 = "hit"
                  /\ tr.w.first = "DisambiguationError")
                   => /\ tr.w.option # "IndexError"
                          => log[4] = Lookup("page", EmmaFilm)
                      /\ tr.w.option # "ok"
                          => /\ log[Len(log)].op = "search"
                             /\ ~Failed(tr.result.wiki)
                                \/ tr.result.wiki.metadata.error
                                       = "No results found"

\* the backends that yielded content, in the order they are asked
Yielded ==
    (IF tr.result.wiki.content # "" THEN <<"wikipedia">> ELSE <<>>)
        \o (IF tr.result.books.content # "" THEN <<"google_books">>
            ELSE <<>>)

\* C14: the sources list of get_text's metadata is the list of the backends
\* that yielded content and the metadata has one entry per listed backend;
\* with both backends the text is the first text, a visible separator, the
\* second text; with one backend the text is that backend's text alone.
C14_MergedSources ==
    Called =>
        LET r == tr.result
        IN  /\ r.metadata.sources = Yielded
            /\ DOMAIN r.metadata \ {"sources", "error"}
                   = {Yielded[i] : i \in 1..Len(Yielded)}
            /\ "wikipedia" \in DOMAIN r.metadata
                   => r.metadata.wikipedia = r.wiki.metadata
            /\ "google_books" \in DOMAIN r.metadata
                   => r.metadata.google_books = r.books.metadata
            /\ Len(Yielded) = 2
                   => \E sep \in {"\n\n---\n\n"} :
                          r.text = r.wiki.content \o sep \o r.books.content
            /\ Yielded = <<"wikipedia">> => r.text = r.wiki.content
            /\ Yielded = <<"google_books">> => r.text = r.books.content

\* both backends yielded content
C14_Witness ==
    /\ Called
    /\ Yielded = <<"wikipedia", "google_books">>
    /\ tr.result.text
           = "Emma is a novel by Jane Austen.\n\n---\n\nTitle: Emma\n"

\* C15: with both backends configured, a failure of one of them (an
\* exception or an error marker) does not keep get_text from calling the
\* other and returning its content.
C15_BackendsIndependent ==
    (Called /\ Truthy(tr.key)) =>
        LET r == tr.result
        IN  /\ r.wiki.log # <<>> /\ r.books.log # <<>>
            /\ (Failed(r.wiki) /\ ~Failed(r.books))
                   => r.kind = "return" /\ r.text = r.books.content
            /\ (Failed(r.books) /\ ~Failed(r.wiki))
                   => r.kind = "return" /\ r.text = r.wiki.content

\* Wikipedia raised, Google Books was asked all the same and its text came
\* back
C15_Witness ==
    /\ Called /\ Truthy(tr.key)
    /\ tr.w.direct = "raise" /\ tr.result.wiki.errors = 1
    /\ tr.g.kind = "items"
    /\ tr.result.books.log # <<>>
    /\ tr.result.text # "" /\ tr.result.text = tr.result.books.content

----------------------------------------------------------------------------
(* AdvancedFeatures: parsing the model's JSON output *)

\* str.find(ch) and str.rfind(ch): the first and last index (from 0) of ch
\* in s, or -1; kept one higher here, so that 0 stands for -1
FindPlusOne(s, ch) ==
    IF \E i \in 1..Len(s) : s[i] = ch
    THEN CHOOSE i \in 1..Len(s) : s[i] = ch /\ \A j \in 1..(i - 1) : s[j] # ch
    ELSE 0

RFindPlusOne(s, ch) ==
    IF \E i \in 1..Len(s) : s[i] = ch
    THEN CHOOSE i \in 1..Len(s) :
             s[i] = ch /\ \A j \in (i + 1)..Len(s) : s[j] # ch
    ELSE 0

\* response_text[json_start:json_end+1] when both indexes were found, the
\* whole text otherwise (lines 301-307)
JsonCandidate(response_text) ==
    LET json_start == FindPlusOne(response_text, "{")
        json_end   == RFindPlusOne(response_text, "}")
    IN  IF json_start # 0 /\ json_end # 0
        THEN SubSeq(response_text, json_start, json_end)
        ELSE response_text

\* json.loads, for documents made of objects, strings without escapes and
\* unsigned integers, separated by blanks
ParseFailed == [ok |-> FALSE, value |-> [type |-> "none"], rest |-> <<>>]

Parsed(value, rest) == [ok |-> TRUE, value |-> value, rest |-> rest]

SkipBlanks(s) == DropFirst(s, LeadingSpaces(s))

\* the number of leading digits of s
RECURSIVE LeadingDigits(_)
LeadingDigits(s) ==
    IF s # <<>> /\ Head(s) \in Digits THEN 1 + LeadingDigits(Tail(s)) ELSE 0

ParseNumber(s) ==
    LET n == LeadingDigits(s)
    IN  IF n = 0 THEN ParseFailed
        ELSE Parsed([type |-> "number", text |-> SubSeq(s, 1, n)],
                    DropFirst(s, n))

\* s starts with the opening quote
ParseString(s) ==
    LET close == FindPlusOne(Tail(s), "\"")
    IN  IF s = <<>> \/ Head(s) # "\"" \/ close = 0 THEN ParseFailed
        ELSE Parsed([type |-> "string", text |-> SubSeq(s, 2, close)],
                    DropFirst(s, close + 1))

JsonObject(keys, vals) == [type |-> "object", keys |-> keys, vals |-> vals]

RECURSIVE ParseValue(_)
RECURSIVE ParseMembers(_, _, _)

\* the members of an object after "{" or ",", up to the closing "}"
ParseMembers(s, keys, vals) ==
    LET k == ParseString(SkipBlanks(s))
        c == SkipBlanks(k.rest)
        v == ParseValue(Tail(c))
        e == SkipBlanks(v.rest)
    IN  IF ~k.ok \/ c = <<>> \/ Head(c) # ":" THEN ParseFailed
        ELSE IF ~v.ok \/ e = <<>> THEN ParseFailed
        ELSE IF Head(e) = ","
        THEN ParseMembers(Tail(e), Append(keys, k.value.text),
                          Append(vals, v.value))
        ELSE IF Head(e) = "}"
        THEN Parsed(JsonObject(Append(keys, k.value.text),
                               Append(vals, v.value)), Tail(e))
        ELSE ParseFailed

ParseValue(s) ==
    LET t == SkipBlanks(s)
    IN  IF t = <<>> THEN ParseFailed
        ELSE IF Head(t) = "{"
        THEN IF SkipBlanks(Tail(t)) # <<>> /\ Head(SkipBlanks(Tail(t))) = "}"
             THEN Parsed(JsonObject(<<>>, <<>>), Tail(SkipBlanks(Tail(t))))
             ELSE ParseMembers(Tail(t), <<>>, <<>>)
        ELSE IF Head(t) = "\"" THEN ParseString(t)
        ELSE ParseNumber(t)

\* json.loads(s): the value, or JSONDecodeError
JsonLoads(s) ==
    LET v == ParseValue(s)
    IN  IF v.ok /\ SkipBlanks(v.rest) = <<>> THEN v ELSE ParseFailed

\* {}
EmptyDict == JsonObject(<<>>, <<>>)

\* the model's text is no JSON at all
SureNotValid ==
    <<"S","u","r","e","!"," ","{","n","o","t"," ","v","a","l","i","d"," ",
      "j","s","o","n">>

\* the last '}' comes before the first '{'
ClosedBeforeOpened ==
    <<"}"," ","{">>

\* an object that is never closed
Unclosed ==
    <<"{","\"","a","\"",":"," ","1">>

\* valid JSON and nothing else
BareObject ==
    <<"{","\"","t","h","e","m","e","s","\"",":"," ","{","\"","p","r","i",
      "d","e","\"",":"," ","7","}","}">>

\* valid JSON inside an explanation
WrappedObject ==
    <<"H","e","r","e",":"," ","{","\"","a","\"",":"," ","\"","b","\"","}",
      " ","D","o","n","e",".">>

\* a JSON number, without any brace
BareNumber ==
    <<"4","2">>

\* a JSON string, without any brace
BareString ==
    <<"\"","t","h","e","m","e","s","\"">>

\* the texts the model answers with
Responses ==
    {SureNotValid, ClosedBeforeOpened, Unclosed, BareObject, WrappedObject,
     BareNumber, BareString}

\* What self.llm.invoke(prompt) can do: return a message with a content,
\* raise, or fail because self.llm is None (no API key, line 32).
LLMOutcomes ==
    {[kind |-> "content", text |-> r] : r \in Responses}
        \cup {[kind |-> k, text |-> <<>>] : k \in {"raise", "nollm"}}

\* a generator returns a value, or an exception leaves a block
AFReturn(value) == [kind |-> "return", value |-> value, errors |-> 0]

AFRaised(exc) == [kind |-> "raise", value |-> [type |-> "none"], exc |-> exc,
                  errors |-> 0]

\* an exception of the try block leaves the generator
OnException_Reraise(r) == r

\* except Exception as e: st.error(...); return {} (lines 201-203, 309-311)
OnException(r) ==
    IF r.kind = "raise"
    THEN [kind |-> "return", value |-> EmptyDict, errors |-> r.errors + 1]
    ELSE r

\* lines 298-308 (and 181-189): the JSON of the response text is parsed
ParseResponse(response_text) ==
    LET p == JsonLoads(JsonCandidate(response_text))
    IN  IF p.ok THEN AFReturn(p.value) ELSE AFRaised("JSONDecodeError")

\* AdvancedFeatures.generate_study_guide: the model is asked outside the try
\* block (line 294)
GenerateStudyGuide(text, llm) ==
    IF llm.kind # "content" THEN AFRaised(llm.kind)
    ELSE OnException(ParseResponse(llm.text))

\* the entry a visualization of the analysis type is expected under
ExpectedKey(analysis_type) ==
    IF analysis_type = "Character Analysis"
    THEN <<"c","h","a","r","a","c","t","e","r","s">>
    ELSE IF analysis_type = "Themes" THEN <<"t","h","e","m","e","s">>
    ELSE IF analysis_type = "Symbolism" THEN <<"s","y","m","b","o","l","s">>
    ELSE <<>>

\* key in value, for a value that is a mapping or a string
Has(value, key) ==
    IF value.type = "object"
    THEN \E i \in 1..Len(value.keys) : value.keys[i] = key
    ELSE \E i \in 1..Len(value.text) :
             /\ i + Len(key) - 1 <= Len(value.text)
             /\ SubSeq(value.text, i, i + Len(key) - 1) = key

\* lines 191-199: the data is wrapped when the expected entry is missing;
\* `in` raises TypeError on a number
EnsureStructure(analysis_type, r) ==
    LET key == ExpectedKey(analysis_type)
    IN  IF r.kind = "raise" \/ key = <<>> THEN r
        ELSE IF r.value.type = "number" THEN AFRaised("TypeError")
        ELSE IF Has(r.value, key) THEN r
        ELSE AFReturn(JsonObject(<<key>>, <<r.value>>))

\* lines 94-96: if not self.llm: st.error("LLM not initialized. ..."); return {}
NotInitialized == [kind |-> "return", value |-> EmptyDict, errors |-> 1]

\* AdvancedFeatures.generate_literary_visualizations: everything from the
\* call of the model on is inside the try block (lines 176-203)
GenerateLiteraryVisualizations(text, analysis_type, llm) ==
    IF llm.kind = "nollm" THEN NotInitialized
    ELSE OnException(IF llm.kind # "content" THEN AFRaised(llm.kind)
                     ELSE EnsureStructure(analysis_type,
                                          ParseResponse(llm.text)))

----------------------------------------------------------------------------
(* A session of calls on one AdvancedFeatures *)

\* number of generator calls in a session
MaxGenerated == 2

\* the text the generators are given
SourceText == "Emma is a novel by Jane Austen."

CallGenerateStudyGuide ==
    /\ ngenerated < MaxGenerated
    /\ \E llm \in LLMOutcomes :
           af' = [op |-> "study_guide", analysis_type |-> "", llm |-> llm,
                  result |-> GenerateStudyGuide(SourceText, llm)]
    /\ ngenerated' = ngenerated + 1
    /\ UNCHANGED <<krVars, grVars, trVars, appVars>>

CallGenerateLiteraryVisualizations ==
    /\ ngenerated < MaxGenerated
    /\ \E llm \in LLMOutcomes, analysis_type \in AnalysisTypes :
           af' = [op |-> "visualizations", analysis_type |-> analysis_type,
                  llm |-> llm,
                  result |-> GenerateLiteraryVisualizations(
                                 SourceText, analysis_type, llm)]
    /\ ngenerated' = ngenerated + 1
    /\ UNCHANGED <<krVars, grVars, trVars, appVars>>

InitAF == InitKR

NextAF ==
    \/ CallGenerateStudyGuide
    \/ CallGenerateLiteraryVisualizations

SpecAF == InitAF /\ [][NextAF]_vars

----------------------------------------------------------------------------
(* Properties of the generators, checked under SpecAF *)

\* the model answered with a text that holds no parseable JSON
Malformed ==
    /\ af.op # "none"
    /\ af.llm.kind = "content"
    /\ af.llm.text \in {SureNotValid, ClosedBeforeOpened, Unclosed}

\* C20: when the model's output cannot be parsed as JSON (after the text from
\* the first '{' to the last '}' is taken), generate_study_guide and
\* generate_literary_visualizations return {} and report the error with
\* st.error; they do not raise.
C20_MalformedOutputGivesEmpty ==
    Malformed =>
        /\ af.result.kind = "return"
        /\ af.result.value = [type |-> "object", keys |-> <<>>, vals |-> <<>>]
        /\ af.result.errors = 1

\* the study guide generator was answered "Sure! {not valid json"
C20_Witness ==
    /\ af.op = "study_guide"
    /\ af.llm.kind = "content" /\ af.llm.text = SureNotValid
    /\ af.result.kind = "return" /\ af.result.errors = 1

\* C22: with the model credentials missing (self.llm is None) every generator
\* is prevented from running: it reports the configuration error with
\* st.error and returns; it neither raises nor attempts a model call.
C22_MissingCredentialsReported ==
    (af.op # "none" /\ af.llm.kind = "nollm") =>
        /\ af.result.kind = "return"
        /\ af.result.errors = 1

\* the part of C22 that concerns generate_literary_visualizations
C22_VisualizationsGuarded ==
    (af.op = "visualizations" /\ af.llm.kind = "nollm") =>
        af.result = [kind |-> "return", value |-> EmptyDict, errors |-> 1]

\* the value json.loads gave for the model's answer, when it gave one
ParsedAnswer == JsonLoads(JsonCandidate(af.llm.text))

\* a visualization was asked for one of the three types with an expected
\* entry, and the result is not {}
NonEmptyVisualization ==
    /\ af.op = "visualizations"
    /\ ExpectedKey(af.analysis_type) # <<>>
    /\ af.result.kind = "return"
    /\ af.result.value # EmptyDict

\* C21: for Character Analysis, Themes and Symbolism every non-empty result
\* of generate_literary_visualizations is an object with the expected
\* top-level key (characters, themes, symbols); a parsed object lacking the
\* key is wrapped under it, one that has it is returned unchanged.
C21_ExpectedTopLevelKey ==
    NonEmptyVisualization =>
        LET key == ExpectedKey(af.analysis_type)
            p   == ParsedAnswer
        IN  /\ af.result.value.type = "object"
            /\ \E i \in 1..Len(af.result.value.keys) :
                   af.result.value.keys[i] = key
            /\ (p.ok /\ p.value.type = "object") =>
                   af.result.value =
                       IF \E i \in 1..Len(p.value.keys) : p.value.keys[i] = key
                       THEN p.value
                       ELSE [type |-> "object", keys |-> <<key>>,
                             vals |-> <<p.value>>]

\* the part of C21 about parsed objects only
C21_ObjectsNormalized ==
    (NonEmptyVisualization /\ ParsedAnswer.ok
         /\ ParsedAnswer.value.type = "object") =>
        LET key == ExpectedKey(af.analysis_type)
            p   == ParsedAnswer
        IN  /\ af.result.value.type = "object"
            /\ \E i \in 1..Len(af.result.value.keys) :
                   af.result.value.keys[i] = key
            /\ af.result.value =
                   IF \E i \in 1..Len(p.value.keys) : p.value.keys[i] = key
                   THEN p.value
                   ELSE [type |-> "object", keys |-> <<key>>,
                         vals |-> <<p.value>>]

----------------------------------------------------------------------------
(* app.py: the session and its handlers *)

\* number of handler runs in a session
MaxRuns == 3

\* What document_processor.process_text(content, metadata) does (app.py line
\* 112). DocumentProcessor defines no process_text: the call either builds
\* the document index, as described, or raises AttributeError.
ProcessTextOutcomes == {"vectorstore", "AttributeError"}

\* What agent_system.generate_response does for its caller (lines 175-182):
\* it returns the answer, or an exception leaves it.
ResponseOutcomes ==
    {[kind |-> "return", text |-> "synthesis text"],
     [kind |-> "raise", text |-> ""]}

\* messages replaced by the new turn
AppendTurn_Replacing(messages, role, text, arg) ==
    << [role |-> role, content |-> [text |-> text, arg |-> arg]] >>

\* st.session_state.messages.append({"role": ..., "content": ...}); a
\* content is a text with the string formatted into it
AppendTurn(messages, role, text, arg) ==
    Append(messages, [role |-> role, content |-> [text |-> text, arg |-> arg]])

\* the study guide and the visualization data are kept across sources
Reset_KeepsGenerated(s, source_query) ==
    [s EXCEPT !.last_query = source_query,
              !.messages =
                  AppendTurn(<<>>, "assistant",
                             "Welcome to READR! I've loaded {source_query}. What would you like to know about it?",
                             source_query),
              !.reading_position = 0,
              !.combined_text = "",
              !.source_metadata = [sources |-> <<>>],
              !.knowledge_base = "None"]

\* lines 93-102: the state is reset for the new book
Reset(s, source_query) ==
    [s EXCEPT !.last_query = source_query,
              !.messages =
                  AppendTurn(<<>>, "assistant",
                             "Welcome to READR! I've loaded {source_query}. What would you like to know about it?",
                             source_query),
              !.study_guide = [type |-> "none"],
              !.visualization_data = [type |-> "none"],
              !.reading_position = 0,
              !.combined_text = "",
              !.source_metadata = [sources |-> <<>>],
              !.knowledge_base = "None"]

\* the metadata of the failed retrieval is kept
Load_KeepsMetadata(s, retrieved, processed) ==
    IF retrieved.text # "" /\ processed = "vectorstore"
    THEN [s EXCEPT !.knowledge_base = processed,
                   !.combined_text = retrieved.text,
                   !.source_metadata = retrieved.metadata]
    ELSE [s EXCEPT !.source_metadata = retrieved.metadata]

\* lines 104-123: the text is retrieved and indexed
Load(s, retrieved, processed) ==
    IF retrieved.text # "" /\ processed = "vectorstore"
    THEN [s EXCEPT !.knowledge_base = processed,
                   !.combined_text = retrieved.text,
                   !.source_metadata = retrieved.metadata]
    ELSE s

\* line 120, st.sidebar.error
NoContentNotice ==
    "No content found for the given source. Please try a different search term."

\* line 118, st.sidebar.success
RetrievedNotice == "Retrieved content from: {', '.join(metadata['sources'])}"

\* the text the stored value of a generator was generated from: the
\* combined_text passed to the generator by the run that stored it (lines
\* 129, 138)
GeneratedFrom(s, r, op, stored, from) ==
    IF r.op = op /\ ~r.raised THEN session.combined_text
    ELSE IF stored = [type |-> "none"] THEN ""
    ELSE from

\* one run of app.py is over
Ran(s, r) ==
    /\ session' = s
    /\ run' = r
    /\ basis' = [study_guide |->
                     GeneratedFrom(s, r, "study_guide", s.study_guide,
                                   basis.study_guide),
                 visualization_data |->
                     GeneratedFrom(s, r, "visualizations",
                                   s.visualization_data,
                                   basis.visualization_data)]
    /\ nruns' = nruns + 1
    /\ UNCHANGED <<callers, cleaned>>
    /\ UNCHANGED <<krVars, grVars, trVars, afVars>>

\* lines 92-123: the source query was changed
ChangeSourceQuery ==
    /\ nruns < MaxRuns
    /\ \E source_query \in TRQueries :
           /\ source_query # session.last_query
           /\ \E retrieved \in {GetText(source_query, None, w, g) :
                                   w \in WikiWorlds,
                                   g \in {b \in BooksWorlds :
                                              b.kind = "noitems"}},
                 processed \in ProcessTextOutcomes :
                  /\ retrieved.text = "" => processed = "AttributeError"
                  /\ Ran(Load(Reset(session, source_query), retrieved,
                              processed),
                         [NoRun EXCEPT
                              !.op = "source",
                              !.dispatched = TRUE,
                              !.content = retrieved.text,
                              !.metadata = retrieved.metadata,
                              !.raised = (retrieved.text # ""
                                           /\ processed = "AttributeError"),
                              !.notice =
                                  IF retrieved.text = "" THEN NoContentNotice
                                  ELSE IF processed = "vectorstore"
                                  THEN RetrievedNotice
                                  ELSE ""])

\* line 84: another analysis focus is selected
SelectAnalysisType ==
    /\ nruns < MaxRuns
    /\ \E analysis_type \in AnalysisTypes :
           /\ analysis_type # session.analysis_type
           /\ Ran([session EXCEPT !.analysis_type = analysis_type],
                  [NoRun EXCEPT !.op = "focus"])

\* lines 126-132: the study guide button was pressed
HandleStudyGuide ==
    /\ nruns < MaxRuns
    /\ session.combined_text # ""
    /\ \E llm \in LLMOutcomes :
           LET r == GenerateStudyGuide(session.combined_text, llm)
               did == [NoRun EXCEPT !.op = "study_guide",
                                    !.dispatched = TRUE,
                                    !.raised = (r.kind = "raise")]
           IN  IF r.kind = "raise" THEN Ran(session, did)
               ELSE Ran([session EXCEPT !.study_guide = r.value,
                                        !.current_tab = "Study Guide"], did)

\* lines 135-144: the visualizations button was pressed
HandleVisualizations ==
    /\ nruns < MaxRuns
    /\ session.combined_text # ""
    /\ \E llm \in LLMOutcomes :
           LET r == GenerateLiteraryVisualizations(
                        session.combined_text, session.analysis_type, llm)
               did == [NoRun EXCEPT !.op = "visualizations",
                                    !.dispatched = TRUE,
                                    !.raised = (r.kind = "raise")]
           IN  IF r.kind = "raise" THEN Ran(session, did)
               ELSE Ran([session EXCEPT !.visualization_data = r.value,
                                        !.current_tab = "Visualizations"],
                        did)

\* lines 159-185: a question was asked; without a combined_text the
\* condition of line 159 fails and the run does nothing with it
AskQuestion ==
    /\ nruns < MaxRuns
    /\ \E question \in Questions, response \in ResponseOutcomes :
           LET asked == AppendTurn(session.messages, "user", "{question}",
                                   question)
               did   == [NoRun EXCEPT !.op = "ask", !.dispatched = TRUE,
                                      !.raised = (response.kind = "raise"),
                                      !.response = response.text]
           IN  IF session.combined_text = ""
               THEN /\ response.kind = "return"
                    /\ Ran(session, [NoRun EXCEPT !.op = "ask"])
               ELSE IF response.kind = "raise"
               THEN Ran([session EXCEPT !.messages = asked], did)
               ELSE Ran([session EXCEPT !.messages =
                            AppendTurn(asked, "assistant", response.text,
                                       <<>>)], did)

\* len(combined_text); a character of a modelled content stands for a
\* passage of 400 characters of the page
Length(text) == 400 * Len(text)

\* line 309: the number of characters shown at once
chunk_size == 5000

Max(a, b) == IF a >= b THEN a ELSE b

Min(a, b) == IF a <= b THEN a ELSE b

\* lines 310-311: the visible portion of the text
start_pos(s) == Max(0, s.reading_position - chunk_size \div 2)

end_pos(s) == Min(Length(s.combined_text), start_pos(s) + chunk_size)

\* lines 319-321: "Previous Section", disabled at the start of the text
PreviousSection ==
    /\ nruns < MaxRuns
    /\ session.last_query # <<>>
    /\ start_pos(session) # 0
    /\ Ran([session EXCEPT !.reading_position =
                               Max(0, start_pos(session) - chunk_size)],
           [NoRun EXCEPT !.op = "previous"])

\* lines 323-325: "Next Section", disabled at the end of the text
NextSection ==
    /\ nruns < MaxRuns
    /\ session.last_query # <<>>
    /\ end_pos(session) < Length(session.combined_text)
    /\ Ran([session EXCEPT !.reading_position =
                               Min(Length(session.combined_text),
                                   end_pos(session))],
           [NoRun EXCEPT !.op = "next"])

\* the positions the slider is moved to: the ends of the text, its middle
\* and the positions next to the current one
SliderPositions(s) ==
    {0, Length(s.combined_text) \div 2, Length(s.combined_text),
     s.reading_position - 1, s.reading_position + 1}
        \cap (0..Length(s.combined_text))

\* lines 340-350: the slider between 0 and len(combined_text) was moved
MoveSlider ==
    /\ nruns < MaxRuns
    /\ session.last_query # <<>>
    /\ \E new_position \in SliderPositions(session) :
           /\ new_position # session.reading_position
           /\ Ran([session EXCEPT !.reading_position = new_position],
                  [NoRun EXCEPT !.op = "slider"])

InitApp == InitKR

NextApp ==
    \/ ChangeSourceQuery
    \/ SelectAnalysisType
    \/ HandleStudyGuide
    \/ HandleVisualizations
    \/ AskQuestion
    \/ PreviousSection
    \/ NextSection
    \/ MoveSlider

SpecApp == InitApp /\ [][NextApp]_vars

----------------------------------------------------------------------------
(* Properties of the session, checked under SpecApp *)

\* s is a prefix of t
IsPrefix(s, t) == Len(s) <= Len(t) /\ SubSeq(t, 1, Len(s)) = s

\* the role of the i-th turn of a history that starts with the welcome turn
\* and then alternates
RoleAt(i) == IF i % 2 = 1 THEN "assistant" ELSE "user"

C29_TurnsWhenReturned ==
    [][run'.op = "ask" /\ run'.dispatched /\ ~run'.raised /\ nruns' # nruns
           => \E question \in Questions :
                  session'.messages =
                      AppendTurn(AppendTurn(session.messages, "user",
                                            "{question}", question),
                                 "assistant", run'.response, <<>>)]_vars

\* the values lines 96-102 assign
IsReset(s) ==
    /\ Len(s.messages) = 1
    /\ s.messages[1].role = "assistant"
    /\ s.study_guide = [type |-> "none"]
    /\ s.visualization_data = [type |-> "none"]
    /\ s.reading_position = 0

\* C30: a change of the source query resets messages, study guide,
\* visualization data and reading position, and combined text, source
\* metadata and document index are either reset or those of the new source;
\* so in every session state a stored study guide and stored visualization
\* data were generated from the current combined_text, the reading position
\* lies within 0..len(combined_text), and a question is given to
\* generate_response only while combined_text is non-empty.
C30_ResetOnSourceChange ==
    /\ [](/\ session.study_guide # [type |-> "none"]
               => basis.study_guide = session.combined_text
          /\ session.visualization_data # [type |-> "none"]
               => basis.visualization_data = session.combined_text
          /\ session.reading_position
                 \in 0..Length(session.combined_text)
          /\ run.op = "ask" /\ run.dispatched
               => session.combined_text # "")
    /\ [][session'.last_query # session.last_query
             => /\ IsReset(session')
                /\ \/ /\ session'.combined_text = ""
                      /\ session'.source_metadata = [sources |-> <<>>]
                      /\ session'.knowledge_base = "None"
                   \/ /\ session'.combined_text = run'.content
                      /\ session'.source_metadata = run'.metadata
                      /\ session'.knowledge_base # "None"]_vars

\* a study guide is stored and the reader has moved into the text
C30_Witness ==
    /\ session.study_guide # [type |-> "none"]
    /\ basis.study_guide = session.combined_text
    /\ session.reading_position > 0

\* C19: the chat history of the session is append-only: whatever the session
\* operation (a question, a new source query, a study guide, visualizations),
\* the history before it is a prefix of the history after it.
C19_HistoryAppendOnly ==
    [][IsPrefix(session.messages, session'.messages)]_vars

\* C19, amended: every session operation but a change of the source query
\* leaves the history before it as a prefix of the history after it; a
\* change of the source query replaces the history by one welcome turn.
C19_AppendOnlyWithinSource ==
    [][/\ session'.last_query = session.last_query
           => IsPrefix(session.messages, session'.messages)
       /\ session'.last_query # session.last_query
           => /\ Len(session'.messages) = 1
              /\ session'.messages[1].role = "assistant"]_vars

\* the last run handled a source query that no backend resolved
Unresolved == run.op = "source" /\ run.content = ""

\* the last run was given a question while the session held no text
AskedWithoutText == run.op = "ask" /\ session.combined_text = ""

\* after an unresolved source query the session holds empty text, empty
\* metadata and no document index
EmptyAfterUnresolved ==
    Unresolved =>
        /\ session.combined_text = ""
        /\ session.source_metadata = [sources |-> <<>>]
        /\ session.knowledge_base = "None"

\* without a document index the document context is empty and the index is
\* never queried
NoIndexNoContext ==
    (request.knowledge_base = "None" /\ pc \notin {"idle", "document"}) =>
        /\ document_context = <<>>
        /\ invoked["document"] = 0
        /\ failure # "document"

Resolved == run.op = "source" /\ run.content # ""

\* C27: whenever a new source query resolves to non-empty content, the
\* session afterwards holds a document index built from that content,
\* combined_text equal to the content and source_metadata equal to the
\* returned metadata.
C27_ProcessSourceBuildsIndex ==
    Resolved =>
        /\ session.knowledge_base = "vectorstore"
        /\ session.combined_text = run.content
        /\ session.source_metadata = run.metadata

\* the part of C27 that lines 113-115 decide: once process_text has
\* returned, its value, the content and the metadata are stored
C27_StoredWhenIndexed ==
    (Resolved /\ ~run.raised) =>
        /\ session.knowledge_base = "vectorstore"
        /\ session.combined_text = run.content
        /\ session.source_metadata = run.metadata

\* a question was asked and answered after a source was loaded
C19_Witness ==
    /\ Len(session.messages) = 3
    /\ session.messages[2].role = "user"
    /\ session.messages[3].role = "assistant"
    /\ session.study_guide.type # "none"

----------------------------------------------------------------------------
(* Properties of the KnowledgeRetriever cache, checked under SpecKR *)

\* the values some caller computed for the cache key k
Computed(k) ==
    {p[2] : p \in {q \in UNION {callers[i].made : i \in Callers} : q[1] = k}}

\* the key and the value caller i is about to store, if it is at a store
Storing(i) ==
    IF callers[i].pc = "store"
    THEN <<callers[i].wkey, callers[i].articles>>
    ELSE <<callers[i].key, callers[i].analyses>>

\* C26: when two callers interleave fetches on one KnowledgeRetriever, step
\* by step, each caller returns a value computed for its own key (or [] when
\* its own lookup raised), every cache entry holds a value that one of the
\* callers computed for that key, no step removes an entry, and an entry
\* changes only by the store of a caller, to the value that caller stores
\* (last write wins).
C26_InterleavedFetches ==
    /\ [](/\ \A k \in DOMAIN cache : cache[k] \in Computed(k)
          /\ \A i \in Callers :
                 callers[i].pc = "done" =>
                     \/ callers[i].returned
                            \in Computed(OwnKey(callers[i].call))
                     \/ /\ callers[i].failed
                        /\ callers[i].call.op = "wiki"
                        /\ callers[i].returned = <<>>)
    /\ [][/\ DOMAIN cache \subseteq DOMAIN cache'
          /\ \A k \in DOMAIN cache' :
                 (k \notin DOMAIN cache \/ cache'[k] # cache[k]) =>
                     \E i \in Callers :
                         /\ callers[i].pc \in {"store", "outer_store"}
                         /\ callers'[i].pc # callers[i].pc
                         /\ Storing(i) = <<k, cache'[k]>>]_vars

\* both callers missed the cache for one key before either stored, and the
\* entry now holds what the second of them stored
C26_Witness ==
    /\ \A i \in Callers : callers[i].pc = "done" /\ ~callers[i].failed
    /\ OwnKey(callers[1].call) = OwnKey(callers[2].call)
    /\ callers[1].returned # callers[2].returned
    /\ callers[1].call.op = "wiki"
    /\ Cardinality(Computed(OwnKey(callers[1].call))) = 2

\* the cache key a call computes
KeyOf(id) ==
    CASE id.op = "wiki" -> WikiKey(id.a)
      [] id.op = "lit"  -> LitKey(id.a, id.b)
      [] id.op = "hist" -> HistKey(id.a, id.b)

\* C6 as stated: any two calls of one operation with the same key fields
\* return equal results, and the second performs no external lookup.
C6_IdempotentAlways ==
    \A i, j \in 1..Len(calls) :
        (i < j /\ calls[i].id = calls[j].id)
            => calls[j].result = calls[i].result /\ calls[j].lookups = 0

\* C6, amended: two calls of one operation with the same key fields, the
\* first of which did not fail in its external lookup, return equal results,
\* and the second performs no external lookup.
C6_IdempotentAfterSuccess ==
    \A i, j \in 1..Len(calls) :
        (i < j /\ calls[i].id = calls[j].id /\ ~calls[i].failed)
            => calls[j].result = calls[i].result /\ calls[j].lookups = 0

\* a call that looked up and stored a non-empty result, a different call,
\* and then the first call again, served from the cache
C6_Witness ==
    /\ Len(calls) = 3
    /\ calls[1].id = calls[3].id
    /\ calls[2].id # calls[1].id
    /\ calls[1].lookups = 1 /\ ~calls[1].failed /\ calls[1].result # <<>>
    /\ calls[2].lookups = 1
    /\ calls[3].hit

\* C7: a call whose external lookup failed leaves no cache entry under its
\* key, and the next call with the same key fields looks up again.
C7_FailuresNeverCached ==
    /\ Len(calls) > 0 /\ calls[Len(calls)].failed
           => ~CacheHit(cache, KeyOf(calls[Len(calls)].id))
    /\ \A i \in 1..Len(calls) - 1 :
           (calls[i].failed /\ calls[i + 1].id = calls[i].id)
               => calls[i + 1].lookups > 0

\* C8: no step removes a cache entry or changes the value stored under a key.
C8_CacheOnlyGrows ==
    [][\A k \in DOMAIN cache : k \in DOMAIN cache' /\ cache'[k] = cache[k]]_vars

\* three calls have each added entries to the cache
C8_Witness ==
    /\ Len(calls) = 3
    /\ \A i \in 1..3 : ~calls[i].hit /\ ~calls[i].failed /\ calls[i].result # <<>>
    /\ Cardinality(DOMAIN cache) >= 4

\* C9: a call served from the cache is served the entry stored by a call of
\* the same operation with the same key fields (max_results included).
C9_NeverServedAcrossQueries ==
    \A i \in 1..Len(calls) : calls[i].hit => calls[i].from = calls[i].id

\* C10: after a call that did not fail, a call of the same operation whose
\* query has the same normalized form (and whose other arguments are equal)
\* performs no external lookup.
C10_KeyedByNormalizedQuery ==
    \A i, j \in 1..Len(calls) :
        (/\ i < j
         /\ ~calls[i].failed
         /\ calls[i].id.op = calls[j].id.op
         /\ CleanTitle(calls[i].id.a) = CleanTitle(calls[j].id.a)
         /\ calls[i].id.b = calls[j].id.b
         /\ calls[i].id.n = calls[j].id.n)
            => calls[j].lookups = 0

----------------------------------------------------------------------------
(* Properties of generate_response, checked under SpecGR *)

\* the model call of a specialist stage was made and raised
StageFailed(stage) == invoked[stage] > 0 /\ responses[stage].kind = "none"

\* the model call of the synthesis stage was made and raised
SynthesisFailed == invoked["synthesis"] > 0 /\ final_response = Unset

\* the call has ended: it returned, or an exception left it
Ended == pc \in {"done", "raised"}

\* C1: when the model call of a specialist stage fails, the stage's output
\* is the placeholder "", the call is not aborted by that failure, and the
\* call does not end without the synthesis stage having been invoked.
C1_SpecialistFailureDegrades ==
    \A stage \in {"reader", "context", "analysis"} :
        StageFailed(stage)
            => /\ GetOutput(responses[stage]) = ""
               /\ failure # stage
               /\ Ended => invoked["synthesis"] = 1

\* C2: when the model call of the synthesis stage fails, the caller gets a
\* classified error instead of the exception of the model call, nothing is
\* written to response_container and nothing is returned as the answer.
C2_SynthesisFailureClassified ==
    SynthesisFailed
        => /\ failure # "synthesis"
           /\ sink = Unset
           /\ returned = Unset

\* C23: no unhandled fault leaves a public operation: whatever external call
\* fails inside generate_response (the query of the document index, the
\* build or query of the external index, a model call) or inside a
\* generator of AdvancedFeatures, the operation returns a value or a
\* classified error; the raw exception never leaves it.
C23_NoUnhandledFault ==
    /\ pc # "raised"
    /\ failure = "none"
    /\ af.op # "none" => af.result.kind = "return"

\* C25: a specialist stage whose model call never returns does not block
\* the others: the remaining specialists are still invoked and the request
\* eventually reaches the synthesis stage, with the placeholder "" for the
\* stalled stage.
C25_StalledStageDoesNotBlock ==
    \A stage \in {"reader", "context", "analysis"} :
        (responses[stage] = Stalled)
            ~> /\ \A other \in {"reader", "context", "analysis"} :
                      invoked[other] > 0
               /\ invoked["synthesis"] > 0
               /\ GetOutput(responses[stage]) = ""

\* the pipeline states of a call, in order
PipelineStates ==
    <<"RETRIEVE_CONTEXT", "RUN_SPECIALISTS", "SYNTHESIZE", "DONE">>

\* C3: a call goes through RETRIEVE_CONTEXT, RUN_SPECIALISTS, SYNTHESIZE,
\* DONE in this order, entering each at most once and leaving the sequence
\* only by a failure, after which nothing follows; a specialist is invoked
\* only after the one retrieval state was entered and left; no specialist
\* and no synthesis call is made twice; and a call that has ended is in DONE
\* or has failed.
C3_LinearPipeline ==
    /\ \E n \in 0..Len(PipelineStates) :
           \/ phases = SubSeq(PipelineStates, 1, n)
           \/ n < Len(PipelineStates)
                  /\ phases = Append(SubSeq(PipelineStates, 1, n), "FAILED")
    /\ \A x \in {"document", "reader", "context", "analysis", "synthesis"} :
           invoked[x] <= 1
    /\ \A stage \in {"reader", "context", "analysis"} :
           invoked[stage] > 0
               => Len(phases) >= 2 /\ phases[1] = "RETRIEVE_CONTEXT"
                                   /\ phases[2] = "RUN_SPECIALISTS"
    /\ Ended => phases[Len(phases)] \in {"DONE", "FAILED"}
    /\ (phases # <<>> /\ phases[Len(phases)] = "FAILED") => pc = "raised"

\* the second call of a session went through all four states and returned
C3_Witness ==
    /\ pc = "done"
    /\ nrequests = 2
    /\ phases = PipelineStates
    /\ \A x \in {"document", "reader", "context", "analysis", "synthesis"} :
           invoked[x] = 1

\* C4: the synthesis model call is made only when each of the three
\* specialists has produced a response: an output, or a response without
\* one, which is read as the placeholder "".
C4_SynthesisJoins ==
    (pc = "synthesis" \/ invoked["synthesis"] > 0)
        => \A stage \in {"reader", "context", "analysis"} :
               /\ invoked[stage] = 1
               /\ responses[stage].kind \in {"ok", "nokey"}

\* the synthesis call was made with one output and two placeholders
C4_Witness ==
    /\ invoked["synthesis"] = 1
    /\ responses["reader"].kind = "nokey"
    /\ responses["context"].kind = "ok"
    /\ responses["analysis"].kind = "nokey"

\* C5: the input of the synthesis call is the question, then the reader
\* output, the context output and the analysis output under their labels, in
\* this order.
C5_SynthesisInputOrder ==
    invoked["synthesis"] > 0
        => /\ Len(synthesis_input) = 5
           /\ synthesis_input[1].label = "Question: "
           /\ synthesis_input[1].text = request.question
           /\ synthesis_input[2].label = "Reader Agent (Text Information): "
           /\ synthesis_input[2].text = GetOutput(responses["reader"])
           /\ synthesis_input[3].label
                  = "Context Agent (Historical/Biographical Context): "
           /\ synthesis_input[3].text = GetOutput(responses["context"])
           /\ synthesis_input[4].label = "Analysis Agent (Literary Analysis): "
           /\ synthesis_input[4].text = GetOutput(responses["analysis"])

\* the synthesis call was made with three different specialist outputs
C5_Witness ==
    /\ invoked["synthesis"] = 1
    /\ synthesis_input[2].text = "reader agent text"
    /\ synthesis_input[3].text = "context agent text"
    /\ synthesis_input[4].text = "analysis agent text"

====
